---- MODULE Spec2Model ----
(***************************************************************************)
(* ProfitPulse: the leakage-safe scoring pipeline                          *)
(* (backend/profitpulse_pipeline.py) and the modular core it grew from     *)
(* (backend/core/*.py, backend/pipeline.py).                               *)
(*                                                                         *)
(* Data frames are sequences of records.  The five proxy columns of a row  *)
(* are collapsed into one column X: an integer, or NaN when any proxy of   *)
(* the row is undefined.  Winsorized values are kept in hundredths, so the *)
(* 1% / 99% quantiles of pandas (linear interpolation) are exact integers. *)
(* With one column the PCA projection is the standardized column itself.   *)
(***************************************************************************)
EXTENDS Integers, Sequences, FiniteSets, TLC

\* ------------------------------------------------------------------ bounds
MaxRows == 4
\* the code refuses to fit on fewer than 300 complete fit-window rows; the
\* model keeps the comparison and scales the threshold to its panel size
MinFitRows == 2
\* the threshold itself, for an input whose size a scenario fixes
FitWindowMin == 300
\* the screener's panels list one firm in every year and hold this many rows more
MaxExtraRows == 2

\* ------------------------------------------------------- program constants
DefaultFitYear == 2019
DefaultTrainEnd == 2020
LastTestYear == 2024
WinsorQ == 1
ParValue == 10000
ProbaThreshold == 50
RiskHighCut == 40
RiskLowCut == 60
BorderlineAbsP == 10
ZWeak == -50
ZStrong == 70
ZJump == 100
ZLowRoa == -20
ChanceDrop == 15
AlertsFrom == 2016
AlertsTo == 2023
\* backend/core: the quantiles of SafePreprocessor.fit_winsor_bounds (percent) and the
\* default label years of DataLoader.split_by_label_year
LowerQ == 1
UpperQ == 99
DefaultLabelMax == 2020
DefaultLabelMin == 2021

Firms == {1, 2}
Years == (DefaultFitYear - 1)..(DefaultTrainEnd + 1)
XVals == {-1, 1}

\* ---------------------------------------------------------------- options
None == <<>>
Some(v) == <<v>>
NaN == <<>>
Num(v) == <<v>>

Min(a, b) == IF a <= b THEN a ELSE b
Max(a, b) == IF a >= b THEN a ELSE b

\* -------------------------------------------------------------- data frames
Front(s) == SubSeq(s, 1, Len(s) - 1)
Last(s) == s[Len(s)]

KeyLE(a, b) ==
    \/ a.FIRM_ID < b.FIRM_ID
    \/ (a.FIRM_ID = b.FIRM_ID /\ a.YEAR <= b.YEAR)

RECURSIVE InsertRow(_, _)
InsertRow(r, s) ==
    IF s = <<>> THEN <<r>>
    ELSE IF KeyLE(Last(s), r) THEN Append(s, r)
    ELSE Append(InsertRow(r, Front(s)), Last(s))

\* df.sort_values(["FIRM_ID", "YEAR"]): stable
RECURSIVE SortValues(_)
SortValues(df) ==
    IF df = <<>> THEN <<>> ELSE InsertRow(Last(df), SortValues(Front(df)))

RECURSIVE InsertInt(_, _)
InsertInt(v, s) ==
    IF s = <<>> THEN <<v>>
    ELSE IF Last(s) <= v THEN Append(s, v)
    ELSE Append(InsertInt(v, Front(s)), Last(s))

RECURSIVE SortInts(_)
SortInts(s) == IF s = <<>> THEN <<>> ELSE InsertInt(Last(s), SortInts(Front(s)))

RECURSIVE SumSeq(_)
SumSeq(s) == IF s = <<>> THEN 0 ELSE Last(s) + SumSeq(Front(s))

RECURSIVE SumSq(_)
SumSq(s) == IF s = <<>> THEN 0 ELSE Last(s) * Last(s) + SumSq(Front(s))

MapSeq(s, F(_)) == [i \in 1..Len(s) |-> F(s[i])]

\* a frame whose undefined proxies are filled with 0 instead of its rows being dropped
FillNA(df) == [i \in 1..Len(df) |-> [df[i] EXCEPT !.X = IF @ = NaN THEN Num(0) ELSE @]]

\* df.dropna(subset=x_cols)
DropNA(df) == SelectSeq(df, LAMBDA r : r.X # NaN)

\* the numeric values of column X (rows without NaN)
ColX(df) == [i \in 1..Len(df) |-> df[i].X[1]]

\* Series.quantile(q), linear interpolation, of integer values; the result is
\* in hundredths of the values' unit.  q is given in percent.
Quantile(vals, q) ==
    LET s == SortInts(vals)
        n == Len(s)
        pos == q * (n - 1)
        i == pos \div 100
        fr == pos % 100
    IN  100 * s[i + 1] + fr * (s[Min(i + 2, n)] - s[i + 1])

\* winsor_bounds_from_train(df_train, cols, q)
winsor_bounds_from_train(df_train, q) ==
    [lo |-> Quantile(ColX(df_train), q), hi |-> Quantile(ColX(df_train), 100 - q)]

\* Series.clip(lower, upper) on a value in hundredths; NaN stays NaN
Clip(x, lo, hi) == IF x = NaN THEN NaN ELSE Num(Min(Max(x[1], lo), hi))

\* apply_winsor_bounds(df_in, bounds): raw values enter in units, leave in hundredths
apply_winsor_bounds(df_in, bounds) ==
    [i \in 1..Len(df_in) |->
        [df_in[i] EXCEPT !.X =
            IF @ = NaN THEN NaN ELSE Clip(Num(100 * @[1]), bounds.lo, bounds.hi)]]

\* ------------------------------------------------------------------- state
VARIABLES
    entry,      \* the program that runs: main.py's pipeline, or a part of backend/pipeline.py
    input,      \* the panel held by the input file (cfg.input_path), after proxy derivation
    pipe,       \* the ProfitPulsePipeline object
    core,       \* the MainPipeline object of the modular core
    pc,         \* position of the one export_artifacts call of the run
    files,      \* artifact files present in cfg.output_dir
    last        \* the public call that produced this state, and whether it raised

vars == <<entry, input, pipe, core, pc, files, last>>

\* AppConfig (only the fields the pipeline's control flow reads); min_fit_rows is not a
\* field of the code's AppConfig but the literal of fit_measurement's line 237
AppConfig(train_end, test_years, fit_year) ==
    [train_target_end_year |-> train_end,
     min_fit_rows |-> MinFitRows,
     test_target_years |-> test_years,
     preprocess_fit_pred_year |-> fit_year,
     default_model_name |-> "XGBoost",
     risk_high_cut |-> RiskHighCut,
     risk_low_cut |-> RiskLowCut,
     borderline_abs_p |-> BorderlineAbsP,
     z_weak |-> ZWeak,
     z_strong |-> ZStrong,
     z_jump |-> ZJump]

\* ProfitPulsePipeline.__init__; n_fit / n_train count the fits and trainings executed,
\* split_ holds the keys of the train and test frames of the last train_models call
NewPipeline(cfg) ==
    [cfg |-> cfg,
     winsor_bounds_ |-> None, pca_scaler_ |-> None, pca_ |-> None, omega_ |-> None,
     svm_scaler_ |-> None, models_ |-> <<>>, metrics_ |-> <<>>,
     df_raw_ |-> None, df_proxy_ |-> None, df_scored_ |-> None,
     df_ml_ |-> None, df_pred_ |-> None,
     split_ |-> None,
     n_fit |-> 0, n_train |-> 0]

Ok(p) == [p |-> p, ok |-> TRUE]
Raise(p) == [p |-> p, ok |-> FALSE]

\* the raw columns build_proxies requires (line 184) and the two net-income columns, of
\* which it requires one (line 185)
RequiredCols == <<"FIRM_ID", "YEAR", "TA", "EQ_P", "SH_ISS", "EPS_B", "REV">>
NetIncomeCols == {"NI_P", "NI_AT"}

\* require_cols(df, cols): the columns of cols the frame lacks, which the ValueError names
require_cols(df, cols) == {cols[i] : i \in {j \in 1..Len(cols) : cols[j] \notin df.columns}}

\* a division that yields 0 where the denominator is zero or null
safe_div_zero(a, b) ==
    IF a = NaN THEN NaN
    ELSE IF b = NaN \/ b[1] = 0 THEN Num([num |-> 0, den |-> 1])
    ELSE Num([num |-> a[1], den |-> b[1]])

\* safe_div(a, b): a zero denominator becomes NaN, and NaN propagates; a defined
\* quotient is kept as the fraction num / den
safe_div(a, b) ==
    LET b2 == IF b # NaN /\ b[1] = 0 THEN NaN ELSE b
    IN  IF a = NaN \/ b2 = NaN THEN NaN ELSE Num([num |-> a[1], den |-> b2[1]])

\* NI_USED (lines 201-206): NI_P where it is defined, else NI_AT; the one column there is
NI_USED(df, r) ==
    IF "NI_P" \in df.columns /\ "NI_AT" \in df.columns
    THEN (IF r.NI_P # NaN THEN r.NI_P ELSE r.NI_AT)
    ELSE IF "NI_P" \in df.columns THEN r.NI_P
    ELSE r.NI_AT

\* lines 209-214: the five proxies of one raw row.  X is the collapsed column the fit
\* and the scoring of this model read: NaN when any proxy is undefined
ProxyRow(df, r) ==
    LET ni == NI_USED(df, r)
        PAID_UP_CAP == IF r.SH_ISS = NaN THEN NaN ELSE Num(r.SH_ISS[1] * ParValue)
        x == [X1_ROA |-> safe_div(ni, r.TA), X2_ROE |-> safe_div(ni, r.EQ_P),
              X3_ROC |-> safe_div(ni, PAID_UP_CAP), X4_EPS |-> r.EPS_B,
              X5_NPM |-> safe_div(ni, r.REV)]
    IN  [FIRM_ID |-> r.FIRM_ID[1], YEAR |-> r.YEAR[1], NI_USED |-> ni,
         X1_ROA |-> x.X1_ROA, X2_ROE |-> x.X2_ROE, X3_ROC |-> x.X3_ROC,
         X4_EPS |-> x.X4_EPS, X5_NPM |-> x.X5_NPM,
         X |-> IF \E c \in DOMAIN x : x[c] = NaN THEN NaN ELSE x.X4_EPS]

\* build_proxies on a raw frame df = [columns, rows], lines 184-220: the two schema
\* checks, the drop of rows without FIRM_ID or YEAR, the sort and the proxies.  The
\* exception carries the columns its message names.
proxies_of(p, df) ==
    IF require_cols(df, RequiredCols) # {}
    THEN [p |-> p, ok |-> FALSE, named |-> require_cols(df, RequiredCols)]
    ELSE IF NetIncomeCols \cap df.columns = {}
    THEN [p |-> p, ok |-> FALSE, named |-> NetIncomeCols]
    ELSE LET keyed == SelectSeq(df.rows, LAMBDA r : r.FIRM_ID # NaN /\ r.YEAR # NaN)
             out == [i \in 1..Len(keyed) |-> ProxyRow(df, keyed[i])]
         IN  Ok([p EXCEPT !.df_proxy_ = Some(SortValues(out))])

\* build_proxies(): load_raw() on first use (which caches the file in df_raw_), then the
\* proxies.  Where the run starts from a raw file (entry = "raw") the proxies are
\* derived from it; elsewhere input is the table build_proxies derived, with the five
\* proxies collapsed into X, and is sorted by (FIRM_ID, YEAR) and cached in df_proxy_.
build_proxies(p) ==
    LET df == IF p.df_raw_ = None THEN input ELSE p.df_raw_[1]
    IN  IF entry = "raw" THEN proxies_of([p EXCEPT !.df_raw_ = Some(df)], df)
        ELSE Ok([p EXCEPT !.df_raw_ = Some(df), !.df_proxy_ = Some(SortValues(df))])

\* a fit that takes every row of the frame, whatever its year
AllRows(dfx, cfg) == dfx

\* the rows a fit may read: complete rows with YEAR <= preprocess_fit_pred_year
FitWindow(dfx, cfg) == SelectSeq(dfx, LAMBDA r : r.YEAR <= cfg.preprocess_fit_pred_year)

\* StandardScaler().fit(X): the sample count and the moments mean_ and var_ derive from
ScalerFit(xs) == [n |-> Len(xs), sum |-> SumSeq(xs), ssq |-> SumSq(xs)]

\* StandardScaler.transform(x) = (x - mean_) / scale_, kept as the numerator
\* n*x - sum: the common positive factor n*scale_ is dropped (scale_ = 1 when var_ = 0)
ScalerTransform(sc, x) == sc.n * x - sc.sum

\* PCA(n_components).fit(X_fit_std) on the one standardized column: the axis is the
\* column itself and explained_variance_ its sum of squares (the data is centred)
PCAFit(zs) == [components_ |-> 1, explained_variance_ |-> SumSq(zs)]

\* pca.transform
PCATransform(pca, z) == pca.components_ * z

\* omega = lambdas / np.sum(lambdas), in percent; 0/0 is NaN
Omega(pca) ==
    IF pca.explained_variance_ = 0 THEN <<NaN>>
    ELSE <<Num((100 * pca.explained_variance_) \div pca.explained_variance_)>>

\* the ValueError of line 238, as what its message reports: a fixed text that names the
\* fit window, without the number of rows found and without the minimum
FitWindowError == [window |-> Some("<=2019"), rows |-> None, threshold |-> None]

\* a fit that discards the stored weights before it checks the window
fit_on_clearing(p, df_proxy) ==
    LET dfx == DropNA(df_proxy)
        fit_df == FitWindow(dfx, p.cfg)
        bounds == winsor_bounds_from_train(fit_df, WinsorQ)
        dfx_w == apply_winsor_bounds(dfx, bounds)
        fit_w == FitWindow(dfx_w, p.cfg)
        pca_scaler == ScalerFit(ColX(fit_w))
        X_fit_std == MapSeq(ColX(fit_w), LAMBDA x : ScalerTransform(pca_scaler, x))
        pca == PCAFit(X_fit_std)
    IN  IF Len(fit_df) < p.cfg.min_fit_rows THEN Raise([p EXCEPT !.omega_ = None])
        ELSE Ok([p EXCEPT !.winsor_bounds_ = Some(bounds),
                          !.pca_scaler_ = Some(pca_scaler),
                          !.pca_ = Some(pca),
                          !.omega_ = Some(Omega(pca)),
                          !.n_fit = @ + 1])

\* fit_measurement, lines 235-272, on the resolved frame df_proxy
fit_on(p, df_proxy) ==
    LET dfx == DropNA(df_proxy)
        fit_df == FitWindow(dfx, p.cfg)
        bounds == winsor_bounds_from_train(fit_df, WinsorQ)
        dfx_w == apply_winsor_bounds(dfx, bounds)
        fit_w == FitWindow(dfx_w, p.cfg)
        pca_scaler == ScalerFit(ColX(fit_w))
        X_fit_std == MapSeq(ColX(fit_w), LAMBDA x : ScalerTransform(pca_scaler, x))
        pca == PCAFit(X_fit_std)
    IN  IF Len(fit_df) < p.cfg.min_fit_rows THEN Raise(p)
        ELSE Ok([p EXCEPT !.winsor_bounds_ = Some(bounds),
                          !.pca_scaler_ = Some(pca_scaler),
                          !.pca_ = Some(pca),
                          !.omega_ = Some(Omega(pca)),
                          !.n_fit = @ + 1])

\* fit_measurement, lines 229-233: b is the pipeline after the frame was resolved
fit_resolved(b, arg) ==
    IF ~b.ok THEN b
    ELSE fit_on(b.p, IF arg = None THEN b.p.df_proxy_[1] ELSE arg[1])

\* fit_measurement(df_proxy=None): arg is None or Some(df)
fit_measurement(p0, arg) ==
    fit_resolved(IF arg = None /\ p0.df_proxy_ = None THEN build_proxies(p0) ELSE Ok(p0),
                 arg)

\* a pipeline that never regards its measurement as fitted
AlwaysUnfitted(p) == TRUE

\* line 283: any(x is None for x in [winsor_bounds_, pca_scaler_, pca_, omega_])
NotFitted(p) ==
    \/ p.winsor_bounds_ = None \/ p.pca_scaler_ = None
    \/ p.pca_ = None \/ p.omega_ = None

\* Series.median() of a ProfitScore column, NaN skipped: twice the median (so that it is
\* an integer), NaN for a column without a value
Median2(profit) ==
    LET vals == SortInts(ColX(DropNA([i \in 1..Len(profit) |-> [X |-> profit[i]]])))
        n == Len(vals)
    IN  IF n = 0 THEN NaN
        ELSE Num(vals[(n + 1) \div 2] + vals[(n + 2) \div 2])

\* (profit > threshold).astype(int): the threshold is kept doubled; a comparison with
\* NaN is false
Above(profit, threshold2) ==
    [i \in 1..Len(profit) |->
        IF profit[i] # NaN /\ threshold2 # NaN /\ 2 * profit[i][1] > threshold2[1]
        THEN 1 ELSE 0]

\* a scored row whose label is 1 from a ProfitScore of 0 on
ScoreRowAtLeast(p, r) ==
    LET z == ScalerTransform(p.pca_scaler_[1], r.X[1])
        pc1 == PCATransform(p.pca_[1], z)
        w == p.omega_[1][1]
        P_t == IF w = NaN THEN NaN ELSE Num(w[1] * pc1)
    IN  [FIRM_ID |-> r.FIRM_ID, YEAR |-> r.YEAR, X |-> r.X, Z |-> z,
         P_t |-> P_t,
         Label_t |-> IF P_t # NaN /\ P_t[1] >= 0 THEN 1 ELSE 0]

\* one scored row: PC score, ProfitScore P_t and Label(t), rule "zero"
ScoreRow(p, r) ==
    LET z == ScalerTransform(p.pca_scaler_[1], r.X[1])
        pc1 == PCATransform(p.pca_[1], z)
        w == p.omega_[1][1]
        P_t == IF w = NaN THEN NaN ELSE Num(w[1] * pc1)
    IN  [FIRM_ID |-> r.FIRM_ID, YEAR |-> r.YEAR, X |-> r.X, Z |-> z,
         P_t |-> P_t,
         Label_t |-> IF P_t # NaN /\ P_t[1] > 0 THEN 1 ELSE 0]

\* a scoring that standardizes with a scaler refitted on the rows it is given
score_refit(p0, df_proxy) ==
    LET dfx_w == apply_winsor_bounds(DropNA(df_proxy), p0.winsor_bounds_[1])
        p == [p0 EXCEPT !.pca_scaler_ = Some(ScalerFit(ColX(dfx_w)))]
        out == MapSeq(dfx_w, LAMBDA r : ScoreRow(p, r))
    IN  Ok([p EXCEPT !.df_scored_ = Some(SortValues(out))])

\* score_profitability, lines 289-323, on the resolved frame df_proxy
score_on(p, df_proxy) ==
    LET dfx_w == apply_winsor_bounds(DropNA(df_proxy), p.winsor_bounds_[1])
        out == MapSeq(dfx_w, LAMBDA r : ScoreRow(p, r))
    IN  Ok([p EXCEPT !.df_scored_ = Some(SortValues(out))])

\* score_profitability, lines 286-287: f is the outcome of the fit, if one was needed;
\* with no frame given and none cached, line 289 raises on None
score_fitted(f, arg) ==
    IF ~f.ok THEN f
    ELSE IF arg = None /\ f.p.df_proxy_ = None THEN Raise(f.p)
    ELSE score_on(f.p, IF arg = None THEN f.p.df_proxy_[1] ELSE arg[1])

\* score_profitability(df_proxy=None, label_rule="zero"): arg is None or Some(df)
score_profitability(p0, arg) ==
    score_fitted(IF NotFitted(p0) THEN fit_measurement(p0, arg) ELSE Ok(p0), arg)

\* lines 310-313: the labels of rule "median_by_year", each row against the median of
\* P_t over the scored rows of its own YEAR
MedianByYear(out) ==
    [i \in 1..Len(out) |->
        LET year == SelectSeq(out, LAMBDA r : r.YEAR = out[i].YEAR)
            med == Median2([k \in 1..Len(year) |-> year[k].P_t])
        IN  [out[i] EXCEPT !.Label_t = Above(<<out[i].P_t>>, med)[1]]]

\* lines 306-315 for a rule other than "zero", on the outcome s of the scoring with
\* rule "zero" from pipeline p0: the median labels, or the ValueError of an unknown rule,
\* which is raised before the scored table is stored
label_rule_applied(p0, s, label_rule) ==
    IF ~s.ok \/ label_rule = "zero" THEN s
    ELSE IF label_rule \in {"median_by_year", "median"}
    THEN Ok([s.p EXCEPT !.df_scored_ = Some(MedianByYear(@[1]))])
    ELSE Raise([s.p EXCEPT !.df_scored_ = p0.df_scored_])

\* score_profitability(df_proxy=None, label_rule)
score_profitability_rule(p0, label_rule) ==
    label_rule_applied(p0, score_profitability(p0, None), label_rule)

\* groupby("FIRM_ID")[col].shift(-1) at row i of a frame: the value of the next row
\* of the same firm, None (NaN) when the firm has no later row
ShiftNext(df, i, F(_)) ==
    LET later == {j \in (i + 1)..Len(df) : df[j].FIRM_ID = df[i].FIRM_ID}
    IN  IF later = {} THEN None
        ELSE Some(F(df[CHOOSE j \in later : \A k \in later : j <= k]))

\* a forecast panel that pairs every scored row with its own label and drops none
panel_unshifted(p, df_scored) ==
    Ok([p EXCEPT !.df_ml_ =
        Some([i \in 1..Len(df_scored) |->
                [FIRM_ID |-> df_scored[i].FIRM_ID, YEAR |-> df_scored[i].YEAR,
                 TargetYear |-> df_scored[i].YEAR + 1,
                 Label_t1 |-> df_scored[i].Label_t,
                 P_t |-> df_scored[i].P_t, X |-> df_scored[i].X, Z |-> df_scored[i].Z]])])

\* a forecast panel that looks the label up in the literal next calendar year and drops
\* the rows of a firm that has no row for it
panel_calendar(p, df_scored) ==
    LET next(r) == SelectSeq(df_scored,
                             LAMBDA s : s.FIRM_ID = r.FIRM_ID /\ s.YEAR = r.YEAR + 1)
        kept == SelectSeq(df_scored, LAMBDA r : next(r) # <<>>)
    IN  Ok([p EXCEPT !.df_ml_ =
            Some([i \in 1..Len(kept) |->
                    [FIRM_ID |-> kept[i].FIRM_ID, YEAR |-> kept[i].YEAR,
                     TargetYear |-> kept[i].YEAR + 1,
                     Label_t1 |-> next(kept[i])[1].Label_t,
                     P_t |-> kept[i].P_t, X |-> kept[i].X, Z |-> kept[i].Z]])])

\* build_forecast_panel, lines 335-353, on the resolved frame df_scored
panel_on(p, df_scored) ==
    LET out == SortValues(df_scored)
        shifted == [i \in 1..Len(out) |->
                      [FIRM_ID |-> out[i].FIRM_ID, YEAR |-> out[i].YEAR,
                       TargetYear |-> out[i].YEAR + 1,
                       Label_t1 |-> ShiftNext(out, i, LAMBDA r : r.Label_t),
                       P_t |-> out[i].P_t, X |-> out[i].X, Z |-> out[i].Z]]
        kept == SelectSeq(shifted, LAMBDA r : r.Label_t1 # None)
        ml == [i \in 1..Len(kept) |-> [kept[i] EXCEPT !.Label_t1 = @[1]]]
    IN  Ok([p EXCEPT !.df_ml_ = Some(SortValues(ml))])

panel_scored(s) == IF ~s.ok THEN s ELSE panel_on(s.p, s.p.df_scored_[1])

\* build_forecast_panel(df_scored=None)
build_forecast_panel(p0) ==
    panel_scored(IF p0.df_scored_ = None THEN score_profitability(p0, None) ELSE Ok(p0))

\* a training frame chosen by the predictor year instead of the label's year
TrainRowsByYear(df_ml, cfg) ==
    SelectSeq(df_ml, LAMBDA r : r.YEAR <= cfg.train_target_end_year)

\* lines 365-366: the split of the forecast panel by the label's year
TrainRows(df_ml, cfg) ==
    SelectSeq(df_ml, LAMBDA r : r.TargetYear <= cfg.train_target_end_year)

TestRows(df_ml, cfg) ==
    SelectSeq(df_ml, LAMBDA r : r.TargetYear \in cfg.test_target_years)

\* the models dict, in the order the sorted prediction table lists them
ModelNames == <<"Random forest", "SVM (RBF)", "XGBoost">>

Labels(df) == {df[i].Label_t1 : i \in 1..Len(df)}

\* the (firm, predictor year) keys of a frame's rows
Keys(df) == {<<df[i].FIRM_ID, df[i].YEAR>> : i \in 1..Len(df)}

\* a fitted classifier, as the training sample that determines it (each row with its key)
FitModel(name, train) ==
    [name |-> name,
     sample |-> [i \in 1..Len(train) |->
                   [FIRM_ID |-> train[i].FIRM_ID, YEAR |-> train[i].YEAR,
                    X |-> train[i].X, y |-> train[i].Label_t1]]]

\* the out-of-sample metrics of one model, as the test rows they are computed on
Metrics(name, test) ==
    [name |-> name,
     test |-> [i \in 1..Len(test) |->
                 [FIRM_ID |-> test[i].FIRM_ID, YEAR |-> test[i].YEAR,
                  y |-> test[i].Label_t1]]]

\* predict_proba(X)[:, 1] in percent: the share of class 1 among the training rows with
\* the same features, the overall share when there is none; the estimators differ, and
\* the SVM, fitted on the standardized features, answers with the overall share
Chance(m, x) ==
    LET same == {i \in 1..Len(m.sample) : m.sample[i].X = x}
        pool == IF same = {} \/ m.name = "SVM (RBF)" THEN 1..Len(m.sample) ELSE same
        ones == {i \in pool : m.sample[i].y = 1}
    IN  (100 * Cardinality(ones)) \div Cardinality(pool)

\* train_models, lines 365-428, on the resolved frame df_ml.  sklearn rejects an empty
\* training or test matrix (lines 396-397, before any attribute is assigned) and a
\* one-class target (in the loop, after models_ and metrics_ were reset).
train_on(p0, df_ml) ==
    LET train == TrainRows(df_ml, p0.cfg)
        test == TestRows(df_ml, p0.cfg)
        p == [p0 EXCEPT !.split_ = Some([train |-> Keys(train), test |-> Keys(test)])]
        reset == [p EXCEPT !.svm_scaler_ = Some(ScalerFit(ColX(train))),
                           !.models_ = <<>>, !.metrics_ = <<>>]
    IN  IF Len(train) = 0 \/ Len(test) = 0 THEN Raise(p)
        ELSE IF Cardinality(Labels(train)) < 2 THEN Raise(reset)
        ELSE Ok([reset EXCEPT
                   !.models_ = [i \in 1..Len(ModelNames) |-> FitModel(ModelNames[i], train)],
                   !.metrics_ = [i \in 1..Len(ModelNames) |-> Metrics(ModelNames[i], test)],
                   !.n_train = @ + 1])

train_panelled(b) == IF ~b.ok THEN b ELSE train_on(b.p, b.p.df_ml_[1])

\* train_models(df_ml=None)
train_models(p0) ==
    train_panelled(IF p0.df_ml_ = None THEN build_forecast_panel(p0) ELSE Ok(p0))

\* one row of predict_for_app's table
PredRow(m, r) ==
    [FIRM_ID |-> r.FIRM_ID, YEAR |-> r.YEAR, TargetYear |-> r.TargetYear,
     P_t |-> r.P_t, Label_t1 |-> r.Label_t1, model |-> m.name,
     chance |-> Chance(m, r.X),
     pred_label |-> IF Chance(m, r.X) >= ProbaThreshold THEN 1 ELSE 0]

\* a predict_for_app that scores only the rows train_models used or evaluated
predict_on_split(p, df_ml) ==
    LET rows == SelectSeq(df_ml, LAMBDA r : r.TargetYear <= p.cfg.train_target_end_year
                                            \/ r.TargetYear \in p.cfg.test_target_years)
    IN  Ok([p EXCEPT !.df_pred_ =
            Some([k \in 1..(Len(p.models_) * Len(rows)) |->
                    PredRow(p.models_[((k - 1) \div Len(rows)) + 1],
                            rows[((k - 1) % Len(rows)) + 1])])])

\* predict_for_app, lines 438-463, with the stored models and the resolved frame df_ml;
\* the table is sorted by (model, FIRM_ID, YEAR)
predict_on(p, df_ml) ==
    Ok([p EXCEPT !.df_pred_ =
        Some([k \in 1..(Len(p.models_) * Len(df_ml)) |->
                PredRow(p.models_[((k - 1) \div Len(df_ml)) + 1],
                        df_ml[((k - 1) % Len(df_ml)) + 1])])])

\* with no frame given and none cached, line 444 raises on None
predict_trained(t) ==
    IF ~t.ok THEN t
    ELSE IF t.p.df_ml_ = None THEN Raise(t.p)
    ELSE predict_on(t.p, t.p.df_ml_[1])

\* predict_for_app(df_ml=None, model_names=None)
predict_for_app(p0) ==
    predict_trained(IF p0.models_ = <<>> THEN train_models(p0) ELSE Ok(p0))

\* predict_for_app, lines 440-463, with the models the caller names: a name that is
\* not a stored model is a KeyError (line 448), no name at all leaves pd.concat without
\* a frame (line 461)
predict_with(p, model_names, df_ml) ==
    LET models == SelectSeq(p.models_, LAMBDA m : m.name \in model_names)
    IN  IF model_names = {} \/ Len(models) < Cardinality(model_names) THEN Raise(p)
        ELSE Ok([p EXCEPT !.df_pred_ =
                Some([k \in 1..(Len(models) * Len(df_ml)) |->
                        PredRow(models[((k - 1) \div Len(df_ml)) + 1],
                                df_ml[((k - 1) % Len(df_ml)) + 1])])])

predict_named(t, model_names) ==
    IF ~t.ok THEN t
    ELSE IF t.p.df_ml_ = None THEN Raise(t.p)
    ELSE predict_with(t.p, model_names, t.p.df_ml_[1])

\* predict_for_app(df_ml=None, model_names=[...])
predict_for_app_named(p0, model_names) ==
    predict_named(IF p0.models_ = <<>> THEN train_models(p0) ELSE Ok(p0), model_names)

\* build_company_view()
build_company_view(p0) ==
    IF p0.df_scored_ = None THEN score_profitability(p0, None) ELSE Ok(p0)

\* build_screener_view, lines 534-536: the year's rows of the panel, or the raise
screener_rows(b, predictor_year) ==
    IF ~b.ok THEN b
    ELSE IF SelectSeq(b.p.df_ml_[1], LAMBDA r : r.YEAR = predictor_year) = <<>>
         THEN Raise(b.p)
    ELSE b

\* build_screener_view, lines 530-531
screener_predicted(a) ==
    IF ~a.ok THEN a
    ELSE IF a.p.df_pred_ = None THEN predict_for_app(a.p) ELSE a

\* build_screener_view(predictor_year): the calls that change the pipeline and the
\* raise on an empty year (lines 528-536)
build_screener_view(p0, predictor_year) ==
    screener_rows(
        screener_predicted(IF p0.df_ml_ = None THEN build_forecast_panel(p0) ELSE Ok(p0)),
        predictor_year)

\* a bucketing that counts a chance equal to a cut as outside the middle band
risk_bucket_inclusive(chance, high_cut, low_cut) ==
    IF chance # NaN /\ chance[1] <= high_cut THEN "High"
    ELSE IF chance # NaN /\ chance[1] >= low_cut THEN "Low"
    ELSE "Medium"

\* risk_bucket(chance, high_cut, low_cut), lines 123-128, chance and cuts in percent; a
\* NaN chance compares false twice
risk_bucket(chance, high_cut, low_cut) ==
    IF chance # NaN /\ chance[1] < high_cut THEN "High"
    ELSE IF chance # NaN /\ chance[1] > low_cut THEN "Low"
    ELSE "Medium"

\* the square of n * scale_ of a fitted StandardScaler (scale_ = 1 when var_ = 0): the
\* factor ScalerTransform drops, so that the ProfitScore is P_t / (100 * n * scale_)
Scale2(sc) ==
    IF sc.n * sc.ssq - sc.sum * sc.sum = 0 THEN sc.n * sc.n
    ELSE sc.n * sc.ssq - sc.sum * sc.sum

\* |ProfitScore| compared with a bound given in hundredths (a multiple of 0.1): less
\* than it (-1), equal to it (0) or greater (1).  The one weight is 100 percent, so
\* P_t \div 100 is the exact numerator q of the score q / sqrt(Scale2), and
\* |q| / sqrt(Scale2) < bound / 100 is compared as 100 * q^2 < (bound / 10)^2 * Scale2
AbsCompare(P_t, sc, bound) ==
    LET q2 == 100 * (P_t[1] \div 100) * (P_t[1] \div 100)
        b2 == (bound \div 10) * (bound \div 10) * Scale2(sc)
    IN  IF q2 < b2 THEN -1 ELSE IF q2 = b2 THEN 0 ELSE 1

\* a flag that is also set at the cutoff itself
borderline_inclusive(P_t, sc, abs_p) ==
    P_t # NaN /\ AbsCompare(P_t, sc, abs_p) <= 0

\* line 548: view["P_t"].abs() < cfg.borderline_abs_p; NaN compares false
borderline(P_t, sc, abs_p) ==
    P_t # NaN /\ AbsCompare(P_t, sc, abs_p) < 0

\* one row of the screener: the columns line 575 keeps (TargetYear is in both merged
\* frames, so the merge renames it and the view has no column of that name)
ViewRow(p, r, chance) ==
    [FIRM_ID |-> r.FIRM_ID, YEAR |-> r.YEAR, P_t |-> r.P_t, chance |-> chance,
     risk |-> risk_bucket(chance, p.cfg.risk_high_cut, p.cfg.risk_low_cut),
     borderline |-> borderline(r.P_t, p.pca_scaler_[1], p.cfg.borderline_abs_p)]

\* base.merge(pred, on=["FIRM_ID", "YEAR"], how="left"), lines 539-544: one row per
\* matching prediction, one row with a NaN chance when there is none
RECURSIVE merge_left(_, _, _)
merge_left(p, base, pred) ==
    IF base = <<>> THEN <<>>
    ELSE LET on == SelectSeq(pred, LAMBDA q : q.FIRM_ID = base[1].FIRM_ID
                                              /\ q.YEAR = base[1].YEAR)
             rows == IF on = <<>> THEN <<ViewRow(p, base[1], NaN)>>
                     ELSE [k \in 1..Len(on) |-> ViewRow(p, base[1], Num(on[k].chance))]
         IN  rows \o merge_left(p, Tail(base), pred)

\* lines 580-582: high risk first, then low chance (NaN last)
RiskRank(risk) == IF risk = "High" THEN 0 ELSE IF risk = "Medium" THEN 1 ELSE 2

ViewLE(a, b) ==
    \/ RiskRank(a.risk) < RiskRank(b.risk)
    \/ /\ RiskRank(a.risk) = RiskRank(b.risk)
       /\ (b.chance = NaN \/ (a.chance # NaN /\ a.chance[1] <= b.chance[1]))

RECURSIVE SortView(_)
SortView(view) ==
    IF view = <<>> THEN <<>>
    ELSE LET rest == SortView(Tail(view))
             before == SelectSeq(rest, LAMBDA b : ~ViewLE(view[1], b))
             after == SelectSeq(rest, LAMBDA b : ViewLE(view[1], b))
         IN  before \o <<view[1]>> \o after

\* the frame build_screener_view returns, lines 534-583, from the cached panel and the
\* cached predictions
screener_view(p, predictor_year) ==
    LET base == SelectSeq(p.df_ml_[1], LAMBDA r : r.YEAR = predictor_year)
        pred == SelectSeq(p.df_pred_[1],
                          LAMBDA q : q.model = p.cfg.default_model_name
                                     /\ q.YEAR = predictor_year)
    IN  SortView(merge_left(p, base, pred))

\* build_alerts_view(year_from, year_to): one screener per year, every exception dropped
build_alerts_view(p0, year_from, year_to) ==
    LET after[y \in (year_from - 1)..year_to] ==
            IF y < year_from THEN p0 ELSE build_screener_view(after[y - 1], y).p
    IN  Ok(after[year_to])

\* ------------------------------------------------- backend/core/data_loader.py
\* DataLoader.align_Xt_to_label_t1: year_t1 is the YEAR of the firm's next row; rows
\* without one are removed
align_Xt_to_label_t1(df) ==
    LET s == SortValues(df)
        w == [i \in 1..Len(s) |->
                [FIRM_ID |-> s[i].FIRM_ID, YEAR |-> s[i].YEAR, X |-> s[i].X,
                 year_t |-> s[i].YEAR,
                 year_t1 |-> ShiftNext(s, i, LAMBDA r : r.YEAR)]]
        df_aligned == SelectSeq(w, LAMBDA r : r.year_t1 # None)
    IN  [i \in 1..Len(df_aligned) |-> [df_aligned[i] EXCEPT !.year_t1 = @[1]]]

\* DataLoader.split_by_label_year
split_by_label_year(df, train_label_max_year, test_label_min_year) ==
    [train |-> SelectSeq(df, LAMBDA r : r.year_t1 <= train_label_max_year),
     test |-> SelectSeq(df, LAMBDA r : r.year_t1 >= test_label_min_year)]

\* ----------------------------------------------- backend/core/preprocessing.py
\* SafePreprocessor.__init__: both dicts empty (None)
SafePreprocessor == [winsor_bounds |-> None, scaler_params |-> None]

\* an infinite float, as (x - mean) / 0 produces
Inf == <<0, 0>>

\* fit_winsor_bounds(train_df, columns): the quantiles of an empty column are NaN
fit_winsor_bounds(sp, train_df) ==
    LET values == ColX(DropNA(train_df))
        bounds == IF values = <<>> THEN [lower |-> NaN, upper |-> NaN]
                  ELSE [lower |-> Num(Quantile(values, LowerQ)),
                        upper |-> Num(Quantile(values, UpperQ))]
    IN  [sp EXCEPT !.winsor_bounds = Some(bounds)]

\* Series.clip(lower, upper) of one value, in hundredths; a NaN bound does not clip
ClipValue(x, bound) ==
    IF x = NaN THEN NaN
    ELSE IF bound.lower = NaN THEN Num(100 * x[1])
    ELSE Clip(Num(100 * x[1]), bound.lower[1], bound.upper[1])

\* an apply_winsor that returns the frame unclipped when no bounds were fitted
apply_winsor_default(sp, df, arg) ==
    [ok |-> TRUE,
     df |-> [i \in 1..Len(df) |->
               [df[i] EXCEPT !.X = ClipValue(df[i].X, [lower |-> NaN, upper |-> NaN])]]]

\* apply_winsor(df, bounds=None): arg is None or Some(bounds); the result is the
\* clipped frame, or the ValueError of line 81
apply_winsor(sp, df, arg) ==
    LET bounds == IF arg = None THEN sp.winsor_bounds ELSE arg
    IN  IF bounds = None THEN [ok |-> FALSE, df |-> <<>>]
        ELSE [ok |-> TRUE,
              df |-> [i \in 1..Len(df) |->
                        [df[i] EXCEPT !.X = ClipValue(df[i].X, bounds[1])]]]

\* fit_scaler(train_df, columns): mean and std (ddof = 1) as their sufficient statistics
fit_scaler(sp, train_df) ==
    [sp EXCEPT !.scaler_params = Some(ScalerFit(ColX(DropNA(train_df))))]

\* (x - mean) / std for one value: NaN when the std is NaN (fewer than two values),
\* NaN or infinite when it is 0, otherwise a positive multiple of n * x - sum
ZScore(x, param) ==
    IF x = NaN \/ param.n < 2 THEN NaN
    ELSE IF param.n * param.ssq = param.sum * param.sum
         THEN (IF param.n * x[1] = param.sum THEN NaN ELSE Inf)
    ELSE Num(ScalerTransform(param, x[1]))

\* apply_scaler(df, params=None): the standardized frame, or the ValueError of line 146
apply_scaler(sp, df, arg) ==
    LET params == IF arg = None THEN sp.scaler_params ELSE arg
    IN  IF params = None THEN [ok |-> FALSE, df |-> <<>>]
        ELSE [ok |-> TRUE,
              df |-> [i \in 1..Len(df) |->
                        [df[i] EXCEPT !.X = ZScore(df[i].X, params[1])]]]

\* preprocess_pipeline(train_df, test_df, feature_cols)
preprocess_pipeline(train_df, test_df) ==
    LET sp1 == fit_winsor_bounds(SafePreprocessor, train_df)
        train_winsor == apply_winsor(sp1, train_df, None).df
        test_winsor == apply_winsor(sp1, test_df, None).df
        sp2 == fit_scaler(sp1, train_winsor)
    IN  [train |-> apply_scaler(sp2, train_winsor, None).df,
         test |-> apply_scaler(sp2, test_winsor, None).df,
         preprocessor |-> sp2]

\* --------------------------------------------- backend/core/pca_profitscore.py
\* PCAProfit.__init__
PCAProfit == [pca |-> None, evr |-> None]

Finite(df) == \A i \in 1..Len(df) : df[i].X # NaN /\ df[i].X # Inf

\* fit_pca(train_data, feature_cols): the estimator is assigned before it is fitted, so
\* a fit that sklearn rejects (no rows, NaN or infinite values) leaves an unfitted one
fit_pca(pp, train_data) ==
    IF train_data = <<>> \/ ~Finite(train_data)
    THEN [ok |-> FALSE, pp |-> [pp EXCEPT !.pca = Some([fitted |-> FALSE])]]
    ELSE LET pca == PCAFit(ColX(train_data))
         IN  [ok |-> TRUE,
              pp |-> [pca |-> Some([fitted |-> TRUE, pca |-> pca]),
                      evr |-> Some(Omega(pca))]]

\* transform_pca(data, feature_cols): the ValueError of line 72 without an estimator,
\* sklearn's error with an unfitted one, with no rows or with NaN or infinite values
transform_pca(pp, data) ==
    IF pp.pca = None \/ ~pp.pca[1].fitted \/ data = <<>> \/ ~Finite(data)
    THEN [ok |-> FALSE, scores |-> <<>>]
    ELSE [ok |-> TRUE,
          scores |-> [i \in 1..Len(data) |-> PCATransform(pp.pca[1].pca, data[i].X[1])]]

\* compute_profit_score(pc_scores, weights): 'evr' divides the stored ratios by their sum
\* (an error when there are none), 'equal' uses 1 / n_components
compute_profit_score(pp, pc_scores, weights) ==
    IF weights = "evr"
    THEN IF pp.evr = None THEN [ok |-> FALSE, P |-> <<>>]
         ELSE [ok |-> TRUE,
               P |-> [i \in 1..Len(pc_scores) |->
                        IF pp.evr[1][1] = NaN THEN NaN
                        ELSE Num(pp.evr[1][1][1] * pc_scores[i])]]
    ELSE IF weights = "equal"
    THEN [ok |-> TRUE, P |-> [i \in 1..Len(pc_scores) |-> Num(100 * pc_scores[i])]]
    ELSE [ok |-> FALSE, P |-> <<>>]

\* pca_pipeline(train_df, test_df, feature_cols): fit on train, transform both frames,
\* score both with the 'evr' weights; any exception leaves the function
pca_pipeline(train_df, test_df) ==
    LET f == fit_pca(PCAProfit, train_df)
        train_pc == transform_pca(f.pp, train_df)
        test_pc == transform_pca(f.pp, test_df)
    IN  IF ~f.ok \/ ~train_pc.ok \/ ~test_pc.ok THEN [ok |-> FALSE]
        ELSE [ok |-> TRUE, pca_model |-> f.pp,
              train |-> compute_profit_score(f.pp, train_pc.scores, "evr").P,
              test |-> compute_profit_score(f.pp, test_pc.scores, "evr").P]

\* ---------------------------------------------------- backend/core/labeling.py
\* LabelMaker.__init__
LabelMaker == [threshold |-> None]

\* fit_threshold_from_train(train_df, profit_col, method='median')
fit_threshold_from_train(lm, profit) == [lm EXCEPT !.threshold = Some(Median2(profit))]

\* make_label_t1(df, profit_col, rule): the labels and the label maker afterwards, or
\* the ValueError of the 'threshold' rule without a threshold and of an unknown rule
make_label_t1(lm, profit, rule) ==
    IF rule = "positive"
    THEN [ok |-> TRUE, label |-> Above(profit, Num(0)),
          lm |-> [lm EXCEPT !.threshold = Some(Num(0))]]
    ELSE IF rule = "median"
    THEN [ok |-> TRUE, label |-> Above(profit, Median2(profit)),
          lm |-> [lm EXCEPT !.threshold = Some(Median2(profit))]]
    ELSE IF rule = "threshold" /\ lm.threshold # None
    THEN [ok |-> TRUE, label |-> Above(profit, lm.threshold[1]), lm |-> lm]
    ELSE [ok |-> FALSE, label |-> <<>>, lm |-> lm]

\* create_labels_pipeline(train_df, test_df, profit_col, rule): train is labelled with
\* the rule, test with the 'threshold' rule and the threshold train left
create_labels_pipeline(train_profit, test_profit, rule) ==
    LET lm0 == IF rule = "median" THEN fit_threshold_from_train(LabelMaker, train_profit)
               ELSE LabelMaker
        tr == make_label_t1(lm0, train_profit, rule)
        te == make_label_t1(tr.lm, test_profit, "threshold")
    IN  [ok |-> tr.ok /\ te.ok, train |-> tr.label, test |-> te.label, label_maker |-> te.lm]

\* --------------------------------------------------- backend/core/ml_models.py
\* MLModels.train_all_models(X_train, y_train): SVM first, whose fit rejects an empty or
\* a one-class training set before any model is stored
train_all_models(X_train, y_train) ==
    IF Cardinality({y_train[i] : i \in 1..Len(y_train)}) < 2
    THEN [ok |-> FALSE, models |-> <<>>]
    ELSE [ok |-> TRUE,
          models |-> [i \in 1..3 |->
                        [name |-> <<"svm", "rf", "xgb">>[i], X |-> X_train, y |-> y_train]]]

\* ------------------------------------------------------- backend/pipeline.py
\* MainPipeline.__init__, with the label years run_full_pipeline is called with and the
\* frames it passes from step to step
MainPipeline ==
    [preprocessor |-> SafePreprocessor, pca |-> PCAProfit,
     label_years |-> None, df_aligned |-> None, train_df |-> None, test_df |-> None,
     train_winsor |-> None, test_winsor |-> None,
     train_prep |-> None, test_prep |-> None,
     train_pc |-> None, ProfitScore |-> None,
     label_maker |-> LabelMaker, ml_models |-> <<>>,
     scores |-> None, labeled |-> None, metrics |-> None]

\* the cache files of save_to_cache, in the order they are written
CacheFiles ==
    <<"predictions.parquet", "profit_scores.parquet", "metadata.json",
      "models.pkl", "preprocessor.pkl", "pca.pkl">>

CacheSet == {CacheFiles[i] : i \in 1..Len(CacheFiles)}

\* the artifact files of export_artifacts, in the order they are written
Artifacts ==
    <<"company_view", "screener", "predictions_all", "model_metrics",
      "methodology_snapshot", "alerts">>

ArtifactSet == {Artifacts[i] : i \in 1..Len(Artifacts)}

\* ---------------------------------------------------------------- the panel
Cells == Firms \X Years

\* the file's rows for a set of cells and their values, sorted by (FIRM_ID, YEAR)
RECURSIVE PanelOf(_, _)
PanelOf(cells, val) ==
    IF cells = {} THEN <<>>
    ELSE LET c == CHOOSE c \in cells :
                    \A d \in cells : d[1] < c[1] \/ (d[1] = c[1] /\ d[2] <= c[2])
         IN  Append(PanelOf(cells \ {c}, val),
                    [FIRM_ID |-> c[1], YEAR |-> c[2], X |-> val[c]])

Panels ==
    {PanelOf(cs, v) : <<cs, v>> \in
        UNION {{<<cs, v>> : v \in [cs -> {Num(x) : x \in XVals} \cup {NaN}]} :
               cs \in {c \in SUBSET Cells : Cardinality(c) <= MaxRows}}}

\* main.py: --train-year and --test-year, any integers (defaults 2020 and 2021)
CliArgs ==
    {[train_year |-> t, test_year |-> DefaultLabelMin] :
        t \in (DefaultLabelMax - 1)..(DefaultLabelMax + 1)}

\* run_pipeline, lines 39-45: the AppConfig built from the command line
CliConfig(args) ==
    AppConfig(args.train_year, args.test_year..LastTestYear, args.train_year - 1)

DefaultConfig ==
    AppConfig(DefaultTrainEnd, (DefaultTrainEnd + 1)..LastTestYear, DefaultFitYear)

\* the panels the modular core is run on: every proxy defined
CorePanels == {p \in Panels : \A i \in 1..Len(p) : p[i].X # NaN}

\* main.py's pipeline object with the default configuration, before any call
InitProfitPulse ==
    /\ entry = "profitpulse"
    /\ input \in Panels
    /\ core = MainPipeline

\* the DataLoader of backend/pipeline.py, before steps 1 and 2 of run_full_pipeline
InitLoader ==
    /\ entry = "loader"
    /\ input \in CorePanels
    /\ core = MainPipeline

\* the SafePreprocessor and the PCAProfit of a MainPipeline whose steps 1 and 2 ran with
\* the default label years; their frames do not depend on the firm, so one firm's
\* panels are enough
InitCore ==
    /\ entry = "core"
    /\ input \in {p \in CorePanels : \A i \in 1..Len(p) : p[i].FIRM_ID = 1}
    /\ LET df_aligned == align_Xt_to_label_t1(input)
           sp == split_by_label_year(df_aligned, DefaultLabelMax, DefaultLabelMin)
       IN  core = [MainPipeline EXCEPT !.label_years =
                                            Some([train_year |-> DefaultLabelMax,
                                                  test_year |-> DefaultLabelMin]),
                                       !.df_aligned = Some(df_aligned),
                                       !.train_df = Some(sp.train),
                                       !.test_df = Some(sp.test)]

\* python pipeline.py: a MainPipeline before run_full_pipeline
InitFull ==
    /\ entry = "full"
    /\ input \in CorePanels
    /\ core = MainPipeline

Init ==
    /\ InitProfitPulse \/ InitLoader \/ InitCore \/ InitFull
    /\ pipe = NewPipeline(DefaultConfig)
    /\ pc = "idle"
    /\ files = {}
    /\ last = [op |-> "init", ok |-> TRUE]

\* ----------------------------------------------------- calls of the public API
\* n_fit and n_train count the fits and trainings executed within one public call
Fresh(p) == [p EXCEPT !.n_fit = 0, !.n_train = 0]

Call(op, r) ==
    /\ entry = "profitpulse"
    /\ pc = "idle"
    /\ pipe' = r.p
    /\ last' = [op |-> op, ok |-> r.ok]
    /\ UNCHANGED <<entry, input, core, pc, files>>

FitMeasurement == Call("fit_measurement", fit_measurement(Fresh(pipe), None))
ScoreProfitability == Call("score_profitability", score_profitability(Fresh(pipe), None))
BuildForecastPanel == Call("build_forecast_panel", build_forecast_panel(Fresh(pipe)))
TrainModels == Call("train_models", train_models(Fresh(pipe)))
PredictForApp == Call("predict_for_app", predict_for_app(Fresh(pipe)))
BuildCompanyView == Call("build_company_view", build_company_view(Fresh(pipe)))
BuildScreenerView ==
    \E y \in Years : Call("build_screener_view", build_screener_view(Fresh(pipe), y))
BuildAlertsView ==
    Call("build_alerts_view", build_alerts_view(Fresh(pipe), AlertsFrom, AlertsTo))

\* --------------------------------------------- export_artifacts, step by step
\* an export_artifacts that drops the exception of a step and goes on with the next
StepIgnoringErrors(from, to, op, r) ==
    /\ pc = from
    /\ pipe' = r.p
    /\ pc' = to
    /\ last' = [op |-> op, ok |-> r.ok]
    /\ UNCHANGED <<entry, input, core>>

\* Each step is one statement of export_artifacts; an exception leaves the call
\* (pc = "failed") with whatever was written so far left in the output directory.
Step(from, to, op, r) ==
    /\ pc = from
    /\ pipe' = r.p
    /\ pc' = IF r.ok THEN to ELSE "failed"
    /\ last' = [op |-> op, ok |-> r.ok]
    /\ UNCHANGED <<entry, input, core>>

Write(name) == files' = files \cup {name}

ExportStart ==
    /\ entry = "profitpulse"
    /\ pc = "idle"
    /\ pc' = "fit"
    /\ pipe' = Fresh(pipe)
    /\ last' = [op |-> "export_artifacts", ok |-> TRUE]
    /\ UNCHANGED <<entry, input, core, files>>

ExportFit ==
    Step("fit", "score", "fit_measurement", fit_measurement(pipe, None))
    /\ UNCHANGED files
ExportScore ==
    Step("score", "panel", "score_profitability", score_profitability(pipe, None))
    /\ UNCHANGED files
ExportPanel ==
    Step("panel", "train", "build_forecast_panel", build_forecast_panel(pipe))
    /\ UNCHANGED files
ExportTrain ==
    Step("train", "predict", "train_models", train_models(pipe))
    /\ UNCHANGED files
ExportPredict ==
    Step("predict", "company", "predict_for_app", predict_for_app(pipe))
    /\ UNCHANGED files
ExportCompany ==
    /\ Step("company", "screener", "build_company_view", build_company_view(pipe))
    /\ IF pc' = "failed" THEN UNCHANGED files ELSE Write("company_view")
ExportScreener ==
    \E y \in Years :
        /\ Step("screener", "predictions", "build_screener_view",
                build_screener_view(pipe, y))
        /\ IF pc' = "failed" THEN UNCHANGED files ELSE Write("screener")
ExportPredictions ==
    /\ Step("predictions", "metrics", "to_parquet", Ok(pipe))
    /\ Write("predictions_all")
ExportMetrics ==
    /\ Step("metrics", "snapshot", "to_json", Ok(pipe))
    /\ Write("model_metrics")
ExportSnapshot ==
    /\ Step("snapshot", "alerts", "to_json", Ok(pipe))
    /\ Write("methodology_snapshot")
ExportAlerts ==
    /\ Step("alerts", "done", "build_alerts_view",
            build_alerts_view(pipe, AlertsFrom, AlertsTo))
    /\ IF pc' = "failed" THEN UNCHANGED files ELSE Write("alerts")

\* ------------------------------------------------ calls of the modular core
CoreCall(op, ok, c) ==
    /\ entry \in {"loader", "core"}
    /\ core' = c
    /\ last' = [op |-> op, ok |-> ok]
    /\ UNCHANGED <<entry, input, pipe, pc, files>>

\* run_full_pipeline, step 1
Align ==
    entry = "loader" /\
    CoreCall("align_Xt_to_label_t1", TRUE,
             [core EXCEPT !.df_aligned = Some(align_Xt_to_label_t1(input))])

\* run_full_pipeline, step 2, with the label years of the command line
SplitByLabelYear ==
    /\ entry = "loader"
    /\ core.df_aligned # None
    /\ \E args \in CliArgs :
         LET sp == split_by_label_year(core.df_aligned[1], args.train_year, args.test_year)
         IN  CoreCall("split_by_label_year", TRUE,
                      [core EXCEPT !.label_years = Some(args),
                                   !.train_df = Some(sp.train), !.test_df = Some(sp.test)])

FitWinsorBounds ==
    /\ entry = "core"
    /\ core.train_df # None
    /\ CoreCall("fit_winsor_bounds", TRUE,
                [core EXCEPT !.preprocessor = fit_winsor_bounds(@, core.train_df[1])])

ApplyWinsor ==
    /\ entry = "core"
    /\ core.train_df # None
    /\ LET tr == apply_winsor(core.preprocessor, core.train_df[1], None)
           te == apply_winsor(core.preprocessor, core.test_df[1], None)
       IN  CoreCall("apply_winsor", tr.ok,
                    IF tr.ok
                    THEN [core EXCEPT !.train_winsor = Some(tr.df),
                                      !.test_winsor = Some(te.df)]
                    ELSE core)

FitScaler ==
    /\ entry = "core"
    /\ core.train_winsor # None
    /\ CoreCall("fit_scaler", TRUE,
                [core EXCEPT !.preprocessor = fit_scaler(@, core.train_winsor[1])])

\* apply_scaler on the winsorized frames, or on the split ones when the caller skipped
\* the winsorization
ApplyScaler ==
    /\ entry = "core"
    /\ core.train_df # None
    /\ LET from_tr == IF core.train_winsor # None THEN core.train_winsor[1]
                      ELSE core.train_df[1]
           from_te == IF core.test_winsor # None THEN core.test_winsor[1]
                      ELSE core.test_df[1]
           tr == apply_scaler(core.preprocessor, from_tr, None)
           te == apply_scaler(core.preprocessor, from_te, None)
       IN  CoreCall("apply_scaler", tr.ok,
                    IF tr.ok
                    THEN [core EXCEPT !.train_prep = Some(tr.df), !.test_prep = Some(te.df)]
                    ELSE core)

\* run_full_pipeline, step 3
PreprocessPipeline ==
    /\ entry = "core"
    /\ core.train_df # None
    /\ LET r == preprocess_pipeline(core.train_df[1], core.test_df[1])
       IN  CoreCall("preprocess_pipeline", TRUE,
                    [core EXCEPT !.preprocessor = r.preprocessor,
                                 !.train_prep = Some(r.train), !.test_prep = Some(r.test)])

FitPca ==
    /\ entry = "core"
    /\ core.train_prep # None
    /\ LET r == fit_pca(core.pca, core.train_prep[1])
       IN  CoreCall("fit_pca", r.ok, [core EXCEPT !.pca = r.pp])

\* transform_pca on the standardized train frame, or on the split one when the caller
\* skipped the preprocessing
TransformPca ==
    /\ entry = "core"
    /\ core.train_df # None
    /\ LET data == IF core.train_prep # None THEN core.train_prep[1] ELSE core.train_df[1]
           r == transform_pca(core.pca, data)
       IN  CoreCall("transform_pca", r.ok,
                    IF r.ok THEN [core EXCEPT !.train_pc = Some(r.scores)] ELSE core)

\* compute_profit_score on the PC scores, or on the caller's own array of numbers
ComputeProfitScore ==
    /\ entry = "core"
    /\ core.train_df # None
    /\ \E weights \in {"evr", "equal"} :
         LET pc_scores == IF core.train_pc # None THEN core.train_pc[1]
                          ELSE ColX(DropNA(core.train_df[1]))
             r == compute_profit_score(core.pca, pc_scores, weights)
         IN  CoreCall("compute_profit_score:" \o weights, r.ok,
                      IF r.ok THEN [core EXCEPT !.ProfitScore = Some(r.P)] ELSE core)

\* ------------------------------------------- run_full_pipeline, step by step
\* Each step is one numbered step of run_full_pipeline; an exception leaves the call
\* (pc = "run:failed") with the cache directory as it is.
RunStep(from, to, op, ok, c) ==
    /\ entry = "full"
    /\ pc = from
    /\ pc' = IF ok THEN to ELSE "run:failed"
    /\ core' = IF ok THEN c ELSE core
    /\ last' = [op |-> op, ok |-> ok]
    /\ UNCHANGED <<entry, input, pipe>>

\* steps 1 and 2, with the label years of the command line (lines 68-77)
RunLoad ==
    \E args \in CliArgs :
        LET df_aligned == align_Xt_to_label_t1(input)
            sp == split_by_label_year(df_aligned, args.train_year, args.test_year)
        IN  /\ RunStep("idle", "run:preprocess", "load_panel", TRUE,
                       [core EXCEPT !.label_years = Some(args),
                                    !.df_aligned = Some(df_aligned),
                                    !.train_df = Some(sp.train), !.test_df = Some(sp.test)])
            /\ UNCHANGED files

\* step 3 (lines 81-83)
RunPreprocess ==
    LET r == preprocess_pipeline(core.train_df[1], core.test_df[1])
    IN  /\ RunStep("run:preprocess", "run:pca", "preprocess_pipeline", TRUE,
                   [core EXCEPT !.preprocessor = r.preprocessor,
                                !.train_prep = Some(r.train), !.test_prep = Some(r.test)])
        /\ UNCHANGED files

\* step 4 (lines 87-89)
RunPca ==
    /\ pc = "run:pca"
    /\ LET r == pca_pipeline(core.train_prep[1], core.test_prep[1])
       IN  RunStep("run:pca", "run:label", "pca_pipeline", r.ok,
                   IF r.ok
                   THEN [core EXCEPT !.pca = r.pca_model,
                                     !.scores = Some([train |-> r.train, test |-> r.test])]
                   ELSE core)
    /\ UNCHANGED files

\* step 5 (lines 93-98)
RunLabel ==
    /\ pc = "run:label"
    /\ LET r == create_labels_pipeline(core.scores[1].train, core.scores[1].test, "positive")
       IN  RunStep("run:label", "run:train", "create_labels_pipeline", r.ok,
                   [core EXCEPT !.label_maker = r.label_maker,
                                !.labeled = Some([train |-> r.train, test |-> r.test])])
    /\ UNCHANGED files

\* steps 6 and 7 (lines 102-112)
RunTrain ==
    /\ pc = "run:train"
    /\ LET r == train_all_models(ColX(core.train_prep[1]), core.labeled[1].train)
       IN  RunStep("run:train", "run:evaluate", "train_all_models", r.ok,
                   [core EXCEPT !.ml_models = r.models])
    /\ UNCHANGED files

\* steps 8 and 9 (lines 116-138): the metrics, as the test labels they are computed on
RunEvaluate ==
    /\ pc = "run:evaluate"
    /\ RunStep("run:evaluate", "run:save", "evaluate_all_models", TRUE,
               [core EXCEPT !.metrics = Some(core.labeled[1].test)])
    /\ UNCHANGED files

\* step 10, save_to_cache: the next cache file is written to its final path
SaveToCache ==
    /\ pc = "run:save"
    /\ LET k == Cardinality(files) + 1
       IN  /\ RunStep("run:save", IF k = Len(CacheFiles) THEN "run:done" ELSE "run:save",
                      "save_to_cache", TRUE, core)
           /\ files' = files \cup {CacheFiles[k]}

\* ------------------------------------- refits while the later years are revised
\* the caller's frames for preprocess_pipeline: the fit window and the rows after it
WindowRows(df) == SelectSeq(df, LAMBDA r : r.YEAR <= DefaultFitYear)
LaterRows(df) == SelectSeq(df, LAMBDA r : r.YEAR > DefaultFitYear)

\* the panel with the row of one (firm, year) cell replaced (val = a value or NaN in a
\* one-element sequence) or removed (val = <<>>)
SetCell(df, firm, year, val) ==
    LET rest == SelectSeq(df, LAMBDA r : ~(r.FIRM_ID = firm /\ r.YEAR = year))
    IN  IF val = <<>> THEN rest
        ELSE SortValues(rest \o <<[FIRM_ID |-> firm, YEAR |-> year, X |-> val[1]]>>)

\* the data file is revised in one cell after the fit window
AlterPostWindow ==
    /\ entry = "profitpulse"
    /\ \E firm \in Firms, year \in {y \in Years : y > DefaultFitYear},
          val \in {<<>>, <<NaN>>} \cup {<<Num(x)>> : x \in XVals} :
         /\ input' = SetCell(input, firm, year, val)
         /\ input' # input
         /\ Len(input') <= MaxRows
    /\ last' = [op |-> "alter_post_window", ok |-> TRUE]
    /\ UNCHANGED <<entry, pipe, core, pc, files>>

\* fit_measurement(df_proxy) on the file as it is now
FitOnInput ==
    /\ entry = "profitpulse"
    /\ LET r == fit_measurement(pipe, Some(input))
       IN  /\ pipe' = Fresh(r.p)
           /\ last' = [op |-> "fit_measurement", ok |-> r.ok]
    /\ UNCHANGED <<entry, input, core, pc, files>>

\* preprocess_pipeline(train_df, test_df) on the file as it is now
PreprocessOnInput ==
    /\ entry = "profitpulse"
    /\ core' = [core EXCEPT !.preprocessor =
                   preprocess_pipeline(WindowRows(input), LaterRows(input)).preprocessor]
    /\ last' = [op |-> "preprocess_pipeline", ok |-> TRUE]
    /\ UNCHANGED <<entry, input, pipe, pc, files>>

NextIso ==
    \/ AlterPostWindow
    \/ FitOnInput
    \/ PreprocessOnInput

InitIso ==
    /\ InitProfitPulse
    /\ pipe = NewPipeline(DefaultConfig)
    /\ pc = "idle"
    /\ files = {}
    /\ last = [op |-> "init", ok |-> TRUE]

SpecIso == InitIso /\ [][NextIso]_vars

\* the four stored artifacts of the measurement fit
Measurement(p) ==
    [winsor_bounds_ |-> p.winsor_bounds_, pca_scaler_ |-> p.pca_scaler_,
     pca_ |-> p.pca_, omega_ |-> p.omega_]

\* C1: fit/apply isolation.  However the rows after the fit window were revised since
\* the fit (the fit ran on A with B, the file now holds A with B'), the stored winsor
\* bounds, scaler, projection and weights are those a fit on the present file yields,
\* and so are the bounds and scaler parameters of preprocess_pipeline.
C1_FitApplyIsolation ==
    /\ ~NotFitted(pipe) =>
          Measurement(pipe) = Measurement(fit_measurement(pipe, Some(input)).p)
    /\ core.preprocessor # SafePreprocessor =>
          core.preprocessor =
              preprocess_pipeline(WindowRows(input), LaterRows(input)).preprocessor

\* a fitted pipeline and a fitted preprocessor whose file was revised after the window
C1_Witness ==
    /\ ~NotFitted(pipe)
    /\ core.preprocessor # SafePreprocessor
    /\ last.op = "alter_post_window"
    /\ LaterRows(input) # <<>>

Next ==
    \/ FitMeasurement
    \/ ScoreProfitability
    \/ BuildForecastPanel
    \/ TrainModels
    \/ PredictForApp
    \/ BuildCompanyView
    \/ BuildScreenerView
    \/ BuildAlertsView
    \/ ExportStart
    \/ ExportFit
    \/ ExportScore
    \/ ExportPanel
    \/ ExportTrain
    \/ ExportPredict
    \/ ExportCompany
    \/ ExportScreener
    \/ ExportPredictions
    \/ ExportMetrics
    \/ ExportSnapshot
    \/ ExportAlerts
    \/ Align
    \/ SplitByLabelYear
    \/ FitWinsorBounds
    \/ ApplyWinsor
    \/ FitScaler
    \/ ApplyScaler
    \/ PreprocessPipeline
    \/ FitPca
    \/ TransformPca
    \/ ComputeProfitScore
    \/ RunLoad
    \/ RunPreprocess
    \/ RunPca
    \/ RunLabel
    \/ RunTrain
    \/ RunEvaluate
    \/ SaveToCache

Spec == Init /\ [][Next]_vars

\* ------------------------------------------- one run from the command line
\* main.py run_pipeline: export_artifacts of a pipeline configured from the command
\* line, or steps 1 and 2 of MainPipeline.run_full_pipeline
InitRun ==
    /\ \/ /\ InitProfitPulse
          /\ pipe \in {NewPipeline(CliConfig(args)) : args \in CliArgs}
       \/ /\ InitLoader
          /\ pipe = NewPipeline(DefaultConfig)
    /\ pc = "idle"
    /\ files = {}
    /\ last = [op |-> "init", ok |-> TRUE]

NextRun ==
    \/ ExportStart
    \/ ExportFit
    \/ ExportScore
    \/ ExportPanel
    \/ ExportTrain
    \/ ExportPredict
    \/ ExportCompany
    \/ ExportScreener
    \/ ExportPredictions
    \/ ExportMetrics
    \/ ExportSnapshot
    \/ ExportAlerts
    \/ Align
    \/ SplitByLabelYear

SpecRun == InitRun /\ [][NextRun]_vars

\* ------------------------------------------------------------ the claims
YearsOf(df, f) == {df[i].YEAR : i \in {j \in 1..Len(df) : df[j].FIRM_ID = f}}
RowsOf(df, f) == {i \in 1..Len(df) : df[i].FIRM_ID = f}

\* the table `shifted` holds, for every firm, one row per year of `base` except the
\* firm's last year
LabelShift(base, shifted) ==
    \A f \in Firms :
        /\ YearsOf(shifted, f) =
              {y \in YearsOf(base, f) : \E z \in YearsOf(base, f) : z > y}
        /\ Cardinality(RowsOf(shifted, f)) =
              IF RowsOf(base, f) = {} THEN 0 ELSE Cardinality(RowsOf(base, f)) - 1

\* C2: label shift.  For every firm with n scored years the forecast table holds
\* exactly n - 1 rows of that firm, one per year except the firm's maximum year; a firm
\* with a single observation contributes none.  The same holds of the aligned table of
\* DataLoader.align_Xt_to_label_t1 with respect to the loaded panel.
C2_LabelShift ==
    /\ pipe.df_ml_ # None => LabelShift(pipe.df_scored_[1], pipe.df_ml_[1])
    /\ core.df_aligned # None => LabelShift(input, core.df_aligned[1])

\* a forecast table built from a firm with three scored years and a firm with one
C2_Witness ==
    /\ pipe.df_ml_ # None
    /\ \E f, g \in Firms :
         /\ Cardinality(RowsOf(pipe.df_scored_[1], f)) = 3
         /\ Cardinality(RowsOf(pipe.df_ml_[1], f)) = 2
         /\ Cardinality(RowsOf(pipe.df_scored_[1], g)) = 1
         /\ RowsOf(pipe.df_ml_[1], g) = {}

\* C3: the train/test split is keyed on the target (label) year only.  After
\* train_models computed its frames, a forecast row is in train iff its TargetYear is
\* <= the train cutoff and in test iff its TargetYear is one of the configured test
\* years, so a row whose target year is in neither is in neither frame; the predictor
\* year decides nothing.  DataLoader.split_by_label_year does the same with year_t1
\* (train: <= the maximum label year, test: >= the minimum label year).
C3_SplitOnTargetYear ==
    /\ pipe.split_ # None =>
          \A i \in 1..Len(pipe.df_ml_[1]) :
              LET r == pipe.df_ml_[1][i]
                  k == <<r.FIRM_ID, r.YEAR>>
              IN  /\ k \in pipe.split_[1].train <=>
                        r.TargetYear <= pipe.cfg.train_target_end_year
                  /\ k \in pipe.split_[1].test <=>
                        r.TargetYear \in pipe.cfg.test_target_years
    /\ core.train_df # None =>
          \A i \in 1..Len(core.df_aligned[1]) :
              LET r == core.df_aligned[1][i]
                  k == <<r.FIRM_ID, r.YEAR>>
              IN  /\ k \in Keys(core.train_df[1]) <=>
                        r.year_t1 <= core.label_years[1].train_year
                  /\ k \in Keys(core.test_df[1]) <=>
                        r.year_t1 >= core.label_years[1].test_year

\* train_models split a panel that has a training row and a row of the buffer year
\* between the cutoff and the test years, which went to neither frame
C3_Witness ==
    /\ pipe.split_ # None
    /\ pipe.split_[1].train # {}
    /\ \E i \in 1..Len(pipe.df_ml_[1]) :
         LET r == pipe.df_ml_[1][i]
         IN  /\ r.TargetYear > pipe.cfg.train_target_end_year
             /\ r.TargetYear \notin pipe.cfg.test_target_years
             /\ <<r.FIRM_ID, r.YEAR>> \notin pipe.split_[1].train \cup pipe.split_[1].test

\* C4: split disjointness, for every cutoff and test-year setting the pipeline or the
\* command line accepts: no forecast row is in both the training and the test frame.
C4_SplitDisjoint ==
    /\ pipe.split_ # None => pipe.split_[1].train \cap pipe.split_[1].test = {}
    /\ core.train_df # None => Keys(core.train_df[1]) \cap Keys(core.test_df[1]) = {}

\* the scored row of a firm and year, in a one-element sequence, or <<>>
RowAt(df, f, y) == SelectSeq(df, LAMBDA r : r.FIRM_ID = f /\ r.YEAR = y)

\* the next recorded year of a firm after year y (there is one)
NextYear(df, f, y) ==
    CHOOSE z \in YearsOf(df, f) : z > y /\ \A w \in YearsOf(df, f) : w > y => z <= w

\* C5: for every forecast row (firm, predictor year t, TargetYear, Label_t1), Label_t1
\* is the same-year label of that firm in the year the row's TargetYear names.
C5_TargetYearIsLabelYear ==
    pipe.df_ml_ # None =>
        \A i \in 1..Len(pipe.df_ml_[1]) :
            LET r == pipe.df_ml_[1][i]
                s == RowAt(pipe.df_scored_[1], r.FIRM_ID, r.TargetYear)
            IN  s # <<>> /\ s[1].Label_t = r.Label_t1

\* C6: when a firm's recorded years have a gap, the forecast row of the earlier year
\* takes the label of the firm's next recorded year and is not dropped: every scored
\* row that has a later row of its firm has a forecast row, whose Label_t1 is the
\* Label_t of the firm's next scored year.  In DataLoader.align_Xt_to_label_t1 the row
\* stays as well, and year_t1 is the firm's next recorded year.
C6_NextRecordedYear ==
    /\ pipe.df_ml_ # None =>
          \A i \in 1..Len(pipe.df_scored_[1]) :
              LET s == pipe.df_scored_[1][i]
                  r == RowAt(pipe.df_ml_[1], s.FIRM_ID, s.YEAR)
              IN  (\E z \in YearsOf(pipe.df_scored_[1], s.FIRM_ID) : z > s.YEAR) =>
                      /\ Len(r) = 1
                      /\ r[1].Label_t1 =
                            RowAt(pipe.df_scored_[1], s.FIRM_ID,
                                  NextYear(pipe.df_scored_[1], s.FIRM_ID, s.YEAR))[1].Label_t
    /\ core.df_aligned # None =>
          \A i \in 1..Len(input) :
              LET r == RowAt(core.df_aligned[1], input[i].FIRM_ID, input[i].YEAR)
              IN  (\E z \in YearsOf(input, input[i].FIRM_ID) : z > input[i].YEAR) =>
                      /\ Len(r) = 1
                      /\ r[1].year_t1 = NextYear(input, input[i].FIRM_ID, input[i].YEAR)

\* a forecast row across a gap that the drop of a year with an undefined proxy made,
\* carrying a label that differs from its own year's
C6_Witness ==
    /\ pipe.df_ml_ # None
    /\ \E i \in 1..Len(pipe.df_ml_[1]) :
         LET r == pipe.df_ml_[1][i]
         IN  /\ RowAt(pipe.df_scored_[1], r.FIRM_ID, r.YEAR + 1) = <<>>
             /\ RowAt(input, r.FIRM_ID, r.YEAR + 1) # <<>>
             /\ RowAt(pipe.df_scored_[1], r.FIRM_ID, r.YEAR)[1].Label_t # r.Label_t1

\* the calls of the pipeline that are no explicit fit
NonFitOps ==
    {"score_profitability", "build_forecast_panel", "train_models", "predict_for_app",
     "build_company_view", "build_screener_view", "build_alerts_view",
     "to_parquet", "to_json"}

\* C7: once the fit has stored winsor bounds, scaler, projection and weights, no
\* operation other than an explicit fit changes them: scoring, panel building,
\* training, prediction and the view builders leave them as they are, and so do
\* apply_winsor, apply_scaler and transform_pca for the stored bounds, scaler
\* parameters and PCA; the scored table and the clipped and standardized frames are
\* computed from exactly the stored values.
C7_FrozenParameters ==
    /\ [][/\ (~NotFitted(pipe) /\ last'.op \in NonFitOps) =>
                Measurement(pipe') = Measurement(pipe)
          /\ last'.op \in {"apply_winsor", "apply_scaler", "transform_pca"} =>
                /\ core'.preprocessor = core.preprocessor
                /\ core'.pca = core.pca
          /\ (last'.op = "score_profitability" /\ last'.ok) =>
                pipe'.df_scored_ =
                    Some(SortValues(MapSeq(
                        apply_winsor_bounds(DropNA(pipe'.df_proxy_[1]),
                                            pipe'.winsor_bounds_[1]),
                        LAMBDA r : ScoreRow(pipe', r))))
          /\ (last'.op = "apply_winsor" /\ last'.ok) =>
                core'.test_winsor[1] =
                    apply_winsor(SafePreprocessor, core.test_df[1],
                                 core.preprocessor.winsor_bounds).df
         ]_vars

\* a fitted pipeline scored rows of later years without fitting again
C7_Witness ==
    /\ last = [op |-> "score_profitability", ok |-> TRUE]
    /\ pc = "idle"
    /\ pipe.n_fit = 0
    /\ \E i \in 1..Len(pipe.df_scored_[1]) :
         pipe.df_scored_[1][i].YEAR > pipe.cfg.preprocess_fit_pred_year

\* C8: within one export_artifacts call the measurement fit is executed exactly once
\* and the models are trained exactly once: one fit from the first statement on, one
\* training from the fourth on, and no scoring, panel, prediction or view step (the
\* screeners inside the alerts view included) adds another.
C8_FitOnceTrainOnce ==
    /\ pc = "fit" => pipe.n_fit = 0 /\ pipe.n_train = 0
    /\ pc \in {"score", "panel", "train"} => pipe.n_fit = 1 /\ pipe.n_train = 0
    /\ pc \in {"predict", "company", "screener", "predictions", "metrics", "snapshot",
               "alerts", "done"} => pipe.n_fit = 1 /\ pipe.n_train = 1
    /\ pc = "failed" => pipe.n_fit <= 1 /\ pipe.n_train <= 1

\* a completed export
C8_Witness ==
    /\ pc = "done"
    /\ files = ArtifactSet
    /\ pipe.n_fit = 1
    /\ pipe.n_train = 1

C10_AllOrNothing ==
    files = {} \/ files = ArtifactSet

\* ------------------------------------------------- runs that start from a raw file
\* one raw row of firm 1 in the last fit-window year: a cell is a number or null (NaN)
RawRows ==
    [FIRM_ID : {Num(1)}, YEAR : {Num(DefaultFitYear)},
     NI_P : {NaN, Num(2)}, NI_AT : {NaN, Num(4)},
     TA : {NaN, Num(0), Num(2)}, EQ_P : {Num(0), Num(1)}, SH_ISS : {Num(0), Num(1)},
     EPS_B : {NaN, Num(3)}, REV : {Num(0), Num(2)}]

\* a complete row of the year before
CompleteRow ==
    [FIRM_ID |-> Num(1), YEAR |-> Num(DefaultFitYear - 1),
     NI_P |-> Num(1), NI_AT |-> Num(1), TA |-> Num(1), EQ_P |-> Num(1), SH_ISS |-> Num(1),
     EPS_B |-> Num(1), REV |-> Num(1)]

AllCols == {RequiredCols[i] : i \in 1..Len(RequiredCols)} \cup NetIncomeCols

\* the raw files: any of four columns may be absent; the file holds the row, or the
\* complete row and the row
RawFiles ==
    {[columns |-> AllCols \ miss, rows |-> rows] :
        miss \in SUBSET {"TA", "REV", "NI_P", "NI_AT"},
        rows \in {<<r>> : r \in RawRows} \cup {<<CompleteRow, r>> : r \in RawRows}}

InitRaw ==
    /\ entry = "raw"
    /\ input \in RawFiles
    /\ pipe = NewPipeline(DefaultConfig)
    /\ core = MainPipeline
    /\ pc = "idle"
    /\ files = {}
    /\ last = [op |-> "init", ok |-> TRUE, named |-> {}]

\* a public call on the pipeline of a raw file; named holds the columns the message of
\* a schema error names
RawCall(op, r) ==
    /\ entry = "raw"
    /\ pipe' = r.p
    /\ last' = [op |-> op, ok |-> r.ok,
                named |-> IF "named" \in DOMAIN r THEN r.named ELSE {}]
    /\ UNCHANGED <<entry, input, core, pc, files>>

LoadRaw == RawCall("load_raw", Ok([pipe EXCEPT !.df_raw_ = Some(input)]))
BuildProxies == RawCall("build_proxies", build_proxies(pipe))
RawFitMeasurement == RawCall("fit_measurement", fit_measurement(Fresh(pipe), None))
RawScoreProfitability ==
    RawCall("score_profitability", score_profitability(Fresh(pipe), None))

NextRaw ==
    \/ LoadRaw
    \/ BuildProxies
    \/ RawFitMeasurement
    \/ RawScoreProfitability

SpecRaw == InitRaw /\ [][NextRaw]_vars

\* the required columns a raw frame lacks: those of the list, and the net-income
\* columns when it has neither
MissingRequired(df) ==
    require_cols(df, RequiredCols) \cup
        (IF NetIncomeCols \cap df.columns = {} THEN NetIncomeCols ELSE {})

\* C13: when a required raw column is missing, build_proxies raises an error that names
\* every missing required column, before any proxy is computed, any parameter is fit
\* or df_proxy_ and the fitted artifacts are changed.  Checked after build_proxies,
\* fit_measurement and score_profitability on a pipeline that holds no proxy table.
C13_SchemaError ==
    (last.op \in {"build_proxies", "fit_measurement", "score_profitability"}
        /\ MissingRequired(input) # {}) =>
            /\ ~last.ok
            /\ last.named = MissingRequired(input)
            /\ pipe.df_proxy_ = None
            /\ NotFitted(pipe)
            /\ pipe.df_scored_ = None

\* the denominators of the four ratio proxies in a raw row, by proxy
Denominators(r) ==
    [X1_ROA |-> r.TA, X2_ROE |-> r.EQ_P,
     X3_ROC |-> IF r.SH_ISS = NaN THEN NaN ELSE Num(r.SH_ISS[1] * ParValue),
     X5_NPM |-> r.REV]

\* the ratio proxies of a raw row whose denominator is zero or null
BadDenominators(r) ==
    {c \in DOMAIN Denominators(r) : Denominators(r)[c] = NaN \/ Denominators(r)[c][1] = 0}

\* the raw rows of the cached file and the proxy row of the same firm and year
RawRowsOf(p) == {p.df_raw_[1].rows[i] : i \in 1..Len(p.df_raw_[1].rows)}
ProxyRowsOf(p, r) ==
    SelectSeq(p.df_proxy_[1], LAMBDA x : x.FIRM_ID = r.FIRM_ID[1] /\ x.YEAR = r.YEAR[1])

\* C14: undefined-ratio propagation.  In the proxy table build_proxies derived, a row
\* whose net income and EPS are defined and whose denominator is zero or null for
\* exactly one ratio proxy is present, has that proxy undefined (NaN, not zero), and
\* has each other ratio proxy equal to net income over its denominator and the EPS
\* proxy equal to EPS_B.
C14_UndefinedRatio ==
    (entry = "raw" /\ pipe.df_proxy_ # None) =>
        \A r \in RawRowsOf(pipe) :
            LET ni == NI_USED(pipe.df_raw_[1], r)
                bad == BadDenominators(r)
                x == ProxyRowsOf(pipe, r)
            IN  (ni # NaN /\ r.EPS_B # NaN /\ Cardinality(bad) = 1) =>
                    /\ Len(x) = 1
                    /\ x[1].X4_EPS = r.EPS_B
                    /\ \A c \in DOMAIN Denominators(r) :
                          x[1][c] = IF c \in bad THEN NaN
                                    ELSE Num([num |-> ni[1], den |-> Denominators(r)[c][1]])

\* a proxy table with a row that has zero revenue and every other cell defined: four
\* numeric proxies and an undefined margin
C14_Witness ==
    /\ entry = "raw"
    /\ last = [op |-> "build_proxies", ok |-> TRUE, named |-> {}]
    /\ pipe.df_proxy_ # None
    /\ \E i \in 1..Len(pipe.df_proxy_[1]) :
         LET x == pipe.df_proxy_[1][i]
         IN  /\ x.X5_NPM = NaN
             /\ x.X1_ROA # NaN /\ x.X2_ROE # NaN /\ x.X3_ROC # NaN /\ x.X4_EPS # NaN

\* the rows of a proxy table whose proxies are all defined
Complete(df) == SelectSeq(df, LAMBDA r : r.X # NaN)

\* C15: a row with an undefined proxy stays in the proxy table and is excluded from the
\* fit, the scored table, the forecast panel and the predictions, and it does not make
\* the scoring fail.  The proxy table has a row for every row of the file; the fitted
\* measurement is that of a fit on the complete rows alone; the scored table has
\* exactly one row for every complete proxy row, of any year; panel and predictions
\* hold complete rows only; and whether score_profitability succeeds depends on the
\* complete rows only (it fits first when the pipeline is not fitted).
C15_UndefinedProxyExcluded ==
    [][/\ pipe'.df_proxy_ # None =>
             /\ Len(pipe'.df_proxy_[1]) = Len(input)
             /\ Keys(pipe'.df_proxy_[1]) = Keys(input)
       /\ (last'.op = "fit_measurement" /\ last'.ok) =>
             Measurement(pipe') =
                 Measurement(fit_on(pipe, Complete(pipe'.df_proxy_[1])).p)
       /\ pipe'.df_scored_ # None =>
             /\ Len(pipe'.df_scored_[1]) = Len(Complete(pipe'.df_proxy_[1]))
             /\ Keys(pipe'.df_scored_[1]) = Keys(Complete(pipe'.df_proxy_[1]))
       /\ pipe'.df_ml_ # None =>
             Keys(pipe'.df_ml_[1]) \subseteq Keys(Complete(pipe'.df_proxy_[1]))
       /\ pipe'.df_pred_ # None =>
             Keys(pipe'.df_pred_[1]) \subseteq Keys(Complete(pipe'.df_proxy_[1]))
       /\ last'.op = "score_profitability" =>
             (last'.ok <=>
                 \/ ~NotFitted(pipe)
                 \/ Len(FitWindow(Complete(SortValues(input)), pipe.cfg)) >= MinFitRows)
      ]_vars

\* a scoring that succeeded on a proxy table with an undefined row, which the scored
\* table lacks
C15_Witness ==
    /\ entry = "profitpulse"
    /\ last = [op |-> "score_profitability", ok |-> TRUE]
    /\ pipe.df_scored_ # None
    /\ pipe.df_scored_[1] # <<>>
    /\ \E i \in 1..Len(pipe.df_proxy_[1]) : pipe.df_proxy_[1][i].X = NaN
    /\ Len(pipe.df_scored_[1]) = Len(pipe.df_proxy_[1]) - 1

\* ------------------------------------------------------------- the label rules
\* panels whose proxies are all defined and may equal the fit window's mean
LabelPanels ==
    {PanelOf(cs, v) : <<cs, v>> \in
        UNION {{<<cs, v>> : v \in [cs -> {Num(x) : x \in XVals \cup {0}}]} :
               cs \in {c \in SUBSET Cells : Cardinality(c) <= MaxRows}}}

\* ProfitScore columns of a training and a test frame, for create_labels_pipeline
ScoreColumns ==
    LET cell == {NaN} \cup {Num(x) : x \in XVals \cup {0}}
        col == {<<>>} \cup {<<a>> : a \in cell} \cup {<<a, b>> : a, b \in cell}
    IN  {[train |-> tr, test |-> te] : tr, te \in col}

InitLabel ==
    /\ \/ entry = "profitpulse" /\ input \in LabelPanels
       \/ entry = "labeling" /\ input \in ScoreColumns
    /\ pipe = NewPipeline(DefaultConfig)
    /\ core = MainPipeline
    /\ pc = "idle"
    /\ files = {}
    /\ last = [op |-> "init", ok |-> TRUE]

\* score_profitability(label_rule=...), with a rule the code knows or one it does not
ScoreByRule ==
    \E label_rule \in {"zero", "median_by_year", "mean"} :
        Call("score_profitability:" \o label_rule,
             score_profitability_rule(Fresh(pipe), label_rule))

\* create_labels_pipeline(train_df, test_df, 'ProfitScore', rule) on the two columns
CreateLabelsPipeline ==
    /\ entry = "labeling"
    /\ \E rule \in {"positive", "median"} :
         LET r == create_labels_pipeline(input.train, input.test, rule)
         IN  /\ core' = [core EXCEPT !.label_maker = r.label_maker,
                                     !.labeled = Some([train |-> r.train, test |-> r.test])]
             /\ last' = [op |-> "create_labels_pipeline:" \o rule, ok |-> r.ok]
    /\ UNCHANGED <<entry, input, pipe, pc, files>>

NextLabel ==
    \/ FitMeasurement
    \/ ScoreByRule
    \/ CreateLabelsPipeline

SpecLabel == InitLabel /\ [][NextLabel]_vars

\* the label of a ProfitScore under the strict rule "greater than 0"
Positive(P) == IF P # NaN /\ P[1] > 0 THEN 1 ELSE 0

\* C16: under rule "zero" the same-year label is 1 iff the ProfitScore is strictly
\* greater than 0, and a ProfitScore of exactly 0 gives label 0: in the table
\* score_profitability stored with label_rule "zero", and in both frames of
\* create_labels_pipeline with LabelMaker's rule 'positive'.
C16_StrictlyPositive ==
    /\ (last = [op |-> "score_profitability:zero", ok |-> TRUE]) =>
          \A i \in 1..Len(pipe.df_scored_[1]) :
              pipe.df_scored_[1][i].Label_t = Positive(pipe.df_scored_[1][i].P_t)
    /\ (last = [op |-> "create_labels_pipeline:positive", ok |-> TRUE]) =>
          /\ core.labeled[1].train = [i \in 1..Len(input.train) |-> Positive(input.train[i])]
          /\ core.labeled[1].test = [i \in 1..Len(input.test) |-> Positive(input.test[i])]

\* a table scored with rule "zero" that has a row with ProfitScore 0 and label 0, and a
\* row with label 1
C16_Witness ==
    /\ last = [op |-> "score_profitability:zero", ok |-> TRUE]
    /\ \E i, j \in 1..Len(pipe.df_scored_[1]) :
         /\ pipe.df_scored_[1][i].P_t = Num(0)
         /\ pipe.df_scored_[1][i].Label_t = 0
         /\ pipe.df_scored_[1][j].Label_t = 1

\* the ProfitScores of the scored rows in the fit window (the training data)
FitWindowScores(p) ==
    LET w == FitWindow(p.df_scored_[1], p.cfg)
    IN  [k \in 1..Len(w) |-> w[k].P_t]

\* C17: with the median rule the label threshold is computed from the training
\* (fit-window) rows only and the same value labels the test-period rows.  After
\* score_profitability with rule "median_by_year" every row is labelled against the
\* median ProfitScore of the fit-window rows; after create_labels_pipeline with rule
\* 'median' the stored threshold is the median of the training column and labels both
\* frames.
C17_MedianFromTraining ==
    /\ (last = [op |-> "score_profitability:median_by_year", ok |-> TRUE]) =>
          \A i \in 1..Len(pipe.df_scored_[1]) :
              pipe.df_scored_[1][i].Label_t =
                  Above(<<pipe.df_scored_[1][i].P_t>>, Median2(FitWindowScores(pipe)))[1]
    /\ (last = [op |-> "create_labels_pipeline:median", ok |-> TRUE]) =>
          /\ core.label_maker.threshold = Some(Median2(input.train))
          /\ core.labeled[1].train = Above(input.train, Median2(input.train))
          /\ core.labeled[1].test = Above(input.test, Median2(input.train))

\* weights, in percent: one defined non-negative number per retained component, with
\* sum 100
Normalised(w, pca) ==
    /\ Len(w) = pca.components_
    /\ \A k \in 1..Len(w) : w[k] # NaN /\ w[k][1] >= 0
    /\ SumSeq([k \in 1..Len(w) |-> w[k][1]]) = 100

\* C18: after any successful fit the PCA variance weights are one non-negative number
\* per retained component and sum to 1, also when the fit window has zero variance:
\* omega_ of ProfitPulsePipeline once fit_measurement has stored it, and the ratios
\* PCAProfit.compute_profit_score normalises once fit_pca has stored them.
C18_WeightsSumToOne ==
    /\ pipe.omega_ # None => Normalised(pipe.omega_[1], pipe.pca_[1])
    /\ (core.pca.evr # None /\ core.pca.pca # None /\ core.pca.pca[1].fitted) =>
          Normalised(core.pca.evr[1], core.pca.pca[1].pca)

\* -------------------------------------------------------------- the screener
\* configurations: the defaults, and two whose cuts are values a chance takes
ScreenConfigs ==
    {DefaultConfig,
     [DefaultConfig EXCEPT !.risk_high_cut = ProbaThreshold,
                           !.borderline_abs_p = 10 * BorderlineAbsP],
     [DefaultConfig EXCEPT !.default_model_name = "SVM (RBF)",
                           !.risk_low_cut = ProbaThreshold]}

\* panels that list firm 1 in every year, so that a training and a test frame exist,
\* and other firms in some years
ScreenPanels ==
    {PanelOf(cs, v) : <<cs, v>> \in
        UNION {{<<cs, v>> : v \in [cs -> {Num(x) : x \in XVals \cup {0}}]} :
               cs \in {({1} \X Years) \cup c : c \in
                          {c \in SUBSET ((Firms \ {1}) \X Years) :
                              Cardinality(c) <= MaxExtraRows}}}}

InitScreen ==
    /\ entry = "profitpulse"
    /\ input \in ScreenPanels
    /\ \E cfg \in ScreenConfigs : pipe = NewPipeline(cfg)
    /\ core = MainPipeline
    /\ pc = "idle"
    /\ files = {}
    /\ last = [op |-> "init", ok |-> TRUE]

\* the pipeline after build_screener_view and the frame it returned
ScreenerReturn(r, predictor_year) ==
    /\ pipe' = r.p
    /\ last' = [op |-> "build_screener_view", ok |-> r.ok,
                predictor_year |-> predictor_year,
                view |-> IF r.ok THEN screener_view(r.p, predictor_year) ELSE <<>>]

\* build_screener_view(predictor_year) with the frame it returns
ScreenerView ==
    /\ entry = "profitpulse"
    /\ \E y \in Years : ScreenerReturn(build_screener_view(Fresh(pipe), y), y)
    /\ UNCHANGED <<entry, input, core, pc, files>>

\* predict_for_app(model_names=...) for one model or for all three
PredictForAppNamed ==
    \E model_names \in {{"SVM (RBF)"},
                         {ModelNames[i] : i \in 1..Len(ModelNames)}} :
        Call("predict_for_app", predict_for_app_named(Fresh(pipe), model_names))

NextScreen ==
    \/ PredictForAppNamed
    \/ ScreenerView

SpecScreen == InitScreen /\ [][NextScreen]_vars

\* the prediction rows of the default model for a firm and a predictor year
DefaultChances(f, y) ==
    {pipe.df_pred_[1][k].chance : k \in
        {k \in 1..Len(pipe.df_pred_[1]) :
            /\ pipe.df_pred_[1][k].model = pipe.cfg.default_model_name
            /\ pipe.df_pred_[1][k].FIRM_ID = f
            /\ pipe.df_pred_[1][k].YEAR = y}}

C20_Borderline ==
    (last.op = "build_screener_view" /\ last.ok) =>
        \A i \in 1..Len(last.view) :
            LET v == last.view[i]
            IN  v.borderline =
                    (v.P_t # NaN /\ AbsCompare(v.P_t, pipe.pca_scaler_[1],
                                               pipe.cfg.borderline_abs_p) = -1)

\* a screener with a row whose negative ProfitScore equals the cutoff in magnitude,
\* not flagged, beside a flagged row
C20_Witness ==
    /\ last.op = "build_screener_view" /\ last.ok
    /\ \E i, j \in 1..Len(last.view) :
         /\ last.view[i].P_t # NaN /\ last.view[i].P_t[1] < 0
         /\ AbsCompare(last.view[i].P_t, pipe.pca_scaler_[1], pipe.cfg.borderline_abs_p) = 0
         /\ ~last.view[i].borderline
         /\ last.view[j].borderline

\* ------------------------------------------------------------------ alerts
\* the columns of the frame build_screener_view returns (line 575 keeps the listed
\* names that exist; after the merge TargetYear exists only as TargetYear_x and
\* TargetYear_y) and the columns build_alerts_view selects from it (line 594)
ViewColumns ==
    {"FIRM_ID", "YEAR", "P_t", "chance", "risk", "borderline", "reason", "action_tip",
     "ROA", "ROE", "ROC", "EPS", "NPM"}

AlertColumns == {"FIRM_ID", "YEAR", "TargetYear", "risk", "chance", "borderline"}

\* lines 593-597: the screener of one year with the selected columns, nothing when
\* build_screener_view or the selection raises
alerts_frame(r, y) ==
    IF ~r.ok \/ ~(AlertColumns \subseteq ViewColumns) THEN <<>>
    ELSE screener_view(r.p, y)

\* lines 592-597: the frames of the years year_from..year_to, concatenated
RECURSIVE alerts_frames(_, _, _)
RECURSIVE alerts_step(_, _, _)
alerts_frames(p, y, year_to) ==
    IF y > year_to THEN <<>> ELSE alerts_step(build_screener_view(p, y), y, year_to)

alerts_step(r, y, year_to) == alerts_frame(r, y) \o alerts_frames(r.p, y + 1, year_to)

\* lines 609-634: the alerts of one pair of consecutive rows of a firm
pair_alerts(prev, cur) ==
    (IF prev.risk # cur.risk
     THEN <<[FIRM_ID |-> cur.FIRM_ID, YEAR |-> cur.YEAR, alert_type |-> "risk_change"]>>
     ELSE <<>>)
    \o (IF cur.borderline
        THEN <<[FIRM_ID |-> cur.FIRM_ID, YEAR |-> cur.YEAR, alert_type |-> "borderline"]>>
        ELSE <<>>)
    \o (IF prev.chance # NaN /\ cur.chance # NaN
           /\ prev.chance[1] - cur.chance[1] >= ChanceDrop
        THEN <<[FIRM_ID |-> cur.FIRM_ID, YEAR |-> cur.YEAR, alert_type |-> "chance_drop"]>>
        ELSE <<>>)

\* lines 601-636: the rows sorted by (FIRM_ID, YEAR), each compared with the row before
\* it of the same firm
RECURSIVE alerts_from(_, _)
alerts_from(allv, i) ==
    IF i > Len(allv) THEN <<>>
    ELSE (IF allv[i].FIRM_ID = allv[i - 1].FIRM_ID THEN pair_alerts(allv[i - 1], allv[i])
          ELSE <<>>) \o alerts_from(allv, i + 1)

\* the frame build_alerts_view(year_from, year_to) returns
alerts_view(p0, year_from, year_to) ==
    alerts_from(SortValues(alerts_frames(p0, year_from, year_to)), 2)

\* build_alerts_view over the panel's years, with the frame it returns
AlertsReturn(r, alerts) ==
    /\ pipe' = r.p
    /\ last' = [op |-> "build_alerts_view", ok |-> r.ok, alerts |-> alerts]

AlertsView ==
    /\ entry = "profitpulse"
    /\ \E year_to \in {DefaultTrainEnd, DefaultTrainEnd + 1} :
         AlertsReturn(build_alerts_view(Fresh(pipe), DefaultFitYear - 1, year_to),
                      alerts_view(Fresh(pipe), DefaultFitYear - 1, year_to))
    /\ UNCHANGED <<entry, input, core, pc, files>>

NextAlerts ==
    \/ PredictForApp
    \/ AlertsView

SpecAlerts == InitScreen /\ [][NextAlerts]_vars

\* the screener rows of a firm over the alert years, from the cached panel and
\* predictions, and the pairs of consecutive available years among them
FirmViewRows(f) ==
    IF pipe.df_ml_ = None \/ pipe.df_pred_ = None THEN {}
    ELSE UNION {{screener_view(pipe, y)[k] : k \in
                    {k \in 1..Len(screener_view(pipe, y)) :
                        screener_view(pipe, y)[k].FIRM_ID = f}} : y \in Years}

ConsecutivePairs(f) ==
    {<<a, b>> \in FirmViewRows(f) \X FirmViewRows(f) :
        /\ a.YEAR < b.YEAR
        /\ ~\E c \in FirmViewRows(f) : a.YEAR < c.YEAR /\ c.YEAR < b.YEAR}

HasAlert(f, y, type) ==
    \E k \in 1..Len(last.alerts) :
        last.alerts[k] = [FIRM_ID |-> f, YEAR |-> y, alert_type |-> type]

\* C22: for every firm and every pair of consecutive available predictor years,
\* build_alerts_view returns a risk_change alert for the later year when the two
\* risk buckets differ and a chance_drop alert when the chance fell by at least 0.15,
\* both when both conditions hold.
C22_AlertsPerYearPair ==
    (last.op = "build_alerts_view" /\ last.ok) =>
        \A f \in Firms : \A pr \in ConsecutivePairs(f) :
            /\ pr[1].risk # pr[2].risk => HasAlert(f, pr[2].YEAR, "risk_change")
            /\ (pr[1].chance # NaN /\ pr[2].chance # NaN
                /\ pr[1].chance[1] - pr[2].chance[1] >= ChanceDrop)
                  => HasAlert(f, pr[2].YEAR, "chance_drop")

\* ------------------------------------------------------- the one-line reason
\* z-scores in hundredths, NaN where the column is absent
Abs(x) == IF x < 0 THEN -x ELSE x

\* a difference of two z-scores, NaN when either is
Diff(a, b) == IF a = NaN \/ b = NaN THEN NaN ELSE Num(a[1] - b[1])

\* comparisons with a NaN operand are false
GE(a, c) == a # NaN /\ a[1] >= c
LE(a, c) == a # NaN /\ a[1] <= c

ReasonLeverage == "ROE cao nhung ROA thap"
ReasonWeak == "ROA/ROE dang yeu"
ReasonNPM == "NPM suy giam"
ReasonEPS == "EPS bien dong manh"
ReasonNeutral == "trung tinh"

\* a version of the rules that tests the margin before the weak returns
reason_npm_first(cfg, row, prev) ==
    LET dz_eps == IF prev = None THEN NaN ELSE Diff(row.Z_X4_EPS, prev[1].Z_X4_EPS)
        dz_npm == IF prev = None THEN NaN ELSE Diff(row.Z_X5_NPM, prev[1].Z_X5_NPM)
    IN  IF GE(row.Z_X2_ROE, cfg.z_strong) /\ LE(row.Z_X1_ROA, ZLowRoa) THEN ReasonLeverage
        ELSE IF LE(row.Z_X5_NPM, cfg.z_weak) \/ LE(dz_npm, -cfg.z_jump) THEN ReasonNPM
        ELSE IF LE(row.Z_X1_ROA, cfg.z_weak) /\ LE(row.Z_X2_ROE, cfg.z_weak) THEN ReasonWeak
        ELSE IF dz_eps # NaN /\ Abs(dz_eps[1]) >= cfg.z_jump THEN ReasonEPS
        ELSE ReasonNeutral

\* _reason_one_liner(row, prev), lines 467-493
reason_one_liner(cfg, row, prev) ==
    LET dz_eps == IF prev = None THEN NaN ELSE Diff(row.Z_X4_EPS, prev[1].Z_X4_EPS)
        dz_npm == IF prev = None THEN NaN ELSE Diff(row.Z_X5_NPM, prev[1].Z_X5_NPM)
    IN  IF GE(row.Z_X2_ROE, cfg.z_strong) /\ LE(row.Z_X1_ROA, ZLowRoa) THEN ReasonLeverage
        ELSE IF LE(row.Z_X1_ROA, cfg.z_weak) /\ LE(row.Z_X2_ROE, cfg.z_weak) THEN ReasonWeak
        ELSE IF LE(row.Z_X5_NPM, cfg.z_weak) \/ LE(dz_npm, -cfg.z_jump) THEN ReasonNPM
        ELSE IF dz_eps # NaN /\ Abs(dz_eps[1]) >= cfg.z_jump THEN ReasonEPS
        ELSE ReasonNeutral

\* build_screener_view, lines 552-562: the row of the panel with the key
\* "<FIRM_ID>_<YEAR - 1>", the last one when several have it
prev_row(df_ml, r) ==
    LET same == SelectSeq(df_ml, LAMBDA q : q.FIRM_ID = r.FIRM_ID /\ q.YEAR = r.YEAR - 1)
    IN  IF same = <<>> THEN None ELSE Some(same[Len(same)])

\* the z-scores of a screener row and the rest of the forecast panel: one other row
\* at most, of either firm, one or two years earlier
ZRows ==
    {[FIRM_ID |-> 1, YEAR |-> DefaultTrainEnd,
      Z_X1_ROA |-> a, Z_X2_ROE |-> e, Z_X5_NPM |-> n, Z_X4_EPS |-> s] :
        a \in {NaN, Num(ZWeak), Num(ZLowRoa), Num(0)},
        e \in {NaN, Num(ZWeak), Num(0), Num(ZStrong)},
        n \in {NaN, Num(ZWeak), Num(0), Num(-ZWeak)},
        s \in {NaN, Num(ZWeak), Num(0), Num(-ZWeak)}}

EarlierRows ==
    {[FIRM_ID |-> f, YEAR |-> y, Z_X1_ROA |-> Num(0), Z_X2_ROE |-> Num(0),
      Z_X5_NPM |-> n, Z_X4_EPS |-> s] :
        f \in Firms, y \in {DefaultTrainEnd - 2, DefaultTrainEnd - 1},
        n \in {NaN, Num(0), Num(-ZWeak), Num(ZJump)},
        s \in {NaN, Num(ZWeak), Num(0), Num(-ZWeak)}}

InitReason ==
    /\ entry = "reason"
    /\ input \in {[row |-> r, df_ml |-> o \o <<r>>] :
                    r \in ZRows, o \in {<<>>} \cup {<<q>> : q \in EarlierRows}}
    /\ pipe = NewPipeline(DefaultConfig)
    /\ core = MainPipeline
    /\ pc = "idle"
    /\ files = {}
    /\ last = [op |-> "init", ok |-> TRUE]

\* one turn of the loop of lines 560-564
ReasonOneLiner ==
    /\ entry = "reason"
    /\ last' = [op |-> "_reason_one_liner", ok |-> TRUE,
                prev |-> prev_row(input.df_ml, input.row),
                reason |-> reason_one_liner(pipe.cfg, input.row,
                                            prev_row(input.df_ml, input.row))]
    /\ UNCHANGED <<entry, input, pipe, core, pc, files>>

NextReason == ReasonOneLiner

SpecReason == InitReason /\ [][NextReason]_vars

\* the conditions of the four rules for the row the reason was computed for; the
\* previous-year row is the panel's row of the same firm and the year before
HasPrev ==
    \E k \in 1..Len(input.df_ml) :
        input.df_ml[k].FIRM_ID = input.row.FIRM_ID /\ input.df_ml[k].YEAR = input.row.YEAR - 1

PrevOf == input.df_ml[CHOOSE k \in 1..Len(input.df_ml) :
                         /\ input.df_ml[k].FIRM_ID = input.row.FIRM_ID
                         /\ input.df_ml[k].YEAR = input.row.YEAR - 1]

RuleLeverage ==
    /\ input.row.Z_X2_ROE # NaN /\ input.row.Z_X2_ROE[1] >= ZStrong
    /\ input.row.Z_X1_ROA # NaN /\ input.row.Z_X1_ROA[1] <= ZLowRoa

RuleWeak ==
    /\ input.row.Z_X1_ROA # NaN /\ input.row.Z_X1_ROA[1] <= ZWeak
    /\ input.row.Z_X2_ROE # NaN /\ input.row.Z_X2_ROE[1] <= ZWeak

RuleNPM ==
    \/ input.row.Z_X5_NPM # NaN /\ input.row.Z_X5_NPM[1] <= ZWeak
    \/ /\ HasPrev
       /\ input.row.Z_X5_NPM # NaN /\ PrevOf.Z_X5_NPM # NaN
       /\ input.row.Z_X5_NPM[1] - PrevOf.Z_X5_NPM[1] <= -ZJump

RuleEPS ==
    /\ HasPrev
    /\ input.row.Z_X4_EPS # NaN /\ PrevOf.Z_X4_EPS # NaN
    /\ \/ input.row.Z_X4_EPS[1] - PrevOf.Z_X4_EPS[1] >= ZJump
       \/ PrevOf.Z_X4_EPS[1] - input.row.Z_X4_EPS[1] >= ZJump

\* C21: the one-line reason is the message of the first rule, in the order high ROE
\* with low ROA, weak ROA and ROE, NPM weak or dropped by the jump, EPS moved by the
\* jump, neutral, whose condition holds; the year-over-year conditions hold only with
\* a previous-year row of the firm.
C21_FirstRuleWins ==
    last.op = "_reason_one_liner" =>
        /\ (last.reason = ReasonLeverage) = RuleLeverage
        /\ (last.reason = ReasonWeak) = (~RuleLeverage /\ RuleWeak)
        /\ (last.reason = ReasonNPM) = (~RuleLeverage /\ ~RuleWeak /\ RuleNPM)
        /\ (last.reason = ReasonEPS) =
              (~RuleLeverage /\ ~RuleWeak /\ ~RuleNPM /\ RuleEPS)
        /\ (last.reason = ReasonNeutral) =
              (~RuleLeverage /\ ~RuleWeak /\ ~RuleNPM /\ ~RuleEPS)
        /\ (last.prev = None) = ~HasPrev

\* a row for which the weak-return rule and the margin rule both hold, with the
\* reason of the weak-return rule
C21_Witness ==
    /\ last.op = "_reason_one_liner"
    /\ RuleWeak /\ RuleNPM /\ HasPrev
    /\ last.reason = ReasonWeak

\* ------------------------------------------------------ the prediction table
\* the default configuration, and one built directly with a buffer year between the
\* training cutoff and the single test year
PredictConfigs ==
    {DefaultConfig,
     AppConfig(DefaultTrainEnd - 1, {DefaultTrainEnd + 1}, DefaultFitYear - 1)}

InitPredict ==
    /\ entry = "profitpulse"
    /\ input \in ScreenPanels
    /\ \E cfg \in PredictConfigs : pipe = NewPipeline(cfg)
    /\ core = MainPipeline
    /\ pc = "idle"
    /\ files = {}
    /\ last = [op |-> "init", ok |-> TRUE]

NextPredict ==
    \/ TrainModels
    \/ PredictForApp

SpecPredict == InitPredict /\ [][NextPredict]_vars

\* the rows of the prediction table for one forecast row and one model
PredRowsOf(r, name) ==
    {k \in 1..Len(pipe.df_pred_[1]) :
        /\ pipe.df_pred_[1][k].FIRM_ID = r.FIRM_ID
        /\ pipe.df_pred_[1][k].YEAR = r.YEAR
        /\ pipe.df_pred_[1][k].model = name}

\* the forecast rows train_models put in neither frame
BufferRows ==
    {i \in 1..Len(pipe.df_ml_[1]) :
        /\ pipe.df_ml_[1][i].TargetYear > pipe.cfg.train_target_end_year
        /\ pipe.df_ml_[1][i].TargetYear \notin pipe.cfg.test_target_years}

\* C23: after predict_for_app returned, the prediction table holds exactly one row for
\* every forecast row and every trained model, whether the row's target year put it in
\* the training frame, in the test frame or in neither, and the class of every row is
\* 1 iff its chance is at least proba_threshold.
C23_OneRowPerRowAndModel ==
    (last.op = "predict_for_app" /\ last.ok) =>
        /\ Len(pipe.models_) = Len(ModelNames)
        /\ Len(pipe.df_pred_[1]) = Len(pipe.df_ml_[1]) * Len(pipe.models_)
        /\ \A i \in 1..Len(pipe.df_ml_[1]) : \A j \in 1..Len(pipe.models_) :
              Cardinality(PredRowsOf(pipe.df_ml_[1][i], pipe.models_[j].name)) = 1
        /\ \A k \in 1..Len(pipe.df_pred_[1]) :
              (pipe.df_pred_[1][k].pred_label = 1) =
                  (pipe.df_pred_[1][k].chance >= ProbaThreshold)

\* a prediction table over a training row, a test row and a row of the buffer year,
\* with a chance equal to the threshold and a chance below it
C23_Witness ==
    /\ last.op = "predict_for_app" /\ last.ok
    /\ BufferRows # {}
    /\ pipe.split_[1].train # {} /\ pipe.split_[1].test # {}
    /\ \E k, l \in 1..Len(pipe.df_pred_[1]) :
          /\ pipe.df_pred_[1][k].chance = ProbaThreshold
          /\ pipe.df_pred_[1][k].pred_label = 1
          /\ pipe.df_pred_[1][l].chance < ProbaThreshold
          /\ pipe.df_pred_[1][l].pred_label = 0

\* ------------------------------------------- the optional XGBoost dependency
\* train_models, lines 374-392: the estimator class behind each name of the models
\* dict, with the module's HAS_XGB
Estimators(has_xgb) ==
    [name \in {ModelNames[i] : i \in 1..Len(ModelNames)} |->
        IF name = "XGBoost"
        THEN (IF has_xgb THEN "XGBClassifier" ELSE "GradientBoostingClassifier")
        ELSE IF name = "SVM (RBF)" THEN "SVC" ELSE "RandomForestClassifier"]

\* an interpreter about to import the module of one of the two pipelines
InitImport ==
    /\ \/ entry = "profitpulse" /\ input \in ScreenPanels
       \/ entry = "full" /\ input \in CorePanels
    /\ pipe = NewPipeline(DefaultConfig)
    /\ core = MainPipeline
    /\ pc = "start"
    /\ files = {}
    /\ last = [op |-> "init", ok |-> TRUE]

\* import profitpulse_pipeline, lines 27-33: the import of xgboost is tried and its
\* failure sets HAS_XGB = False; xgboost is installed or it is not
ImportProfitPulse ==
    /\ entry = "profitpulse"
    /\ pc = "start"
    /\ \E xgboost \in BOOLEAN :
          last' = [op |-> "import", ok |-> TRUE, xgboost |-> xgboost, HAS_XGB |-> xgboost]
    /\ pc' = "imported"
    /\ UNCHANGED <<entry, input, pipe, core, files>>

\* import pipeline (main.py line 56), whose line 16 imports core.ml_models, whose
\* line 11 imports XGBClassifier from xgboost outside any try
ImportMLModels ==
    /\ entry = "full"
    /\ pc = "start"
    /\ \E xgboost \in BOOLEAN :
          /\ last' = [op |-> "import", ok |-> xgboost, xgboost |-> xgboost,
                      HAS_XGB |-> xgboost]
          /\ pc' = IF xgboost THEN "idle" ELSE "failed"
    /\ UNCHANGED <<entry, input, pipe, core, files>>

\* the pipeline after train_models and the estimators it fitted
TrainReturn(r, has_xgb) ==
    /\ pipe' = r.p
    /\ pc' = IF r.ok THEN "trained" ELSE "failed"
    /\ last' = [op |-> "train_models", ok |-> r.ok, xgboost |-> has_xgb,
                HAS_XGB |-> has_xgb,
                estimators |-> IF r.ok THEN Estimators(has_xgb) ELSE <<>>]

\* train_models() of the imported module
TrainImported ==
    /\ entry = "profitpulse"
    /\ pc = "imported"
    /\ TrainReturn(train_models(Fresh(pipe)), last.HAS_XGB)
    /\ UNCHANGED <<entry, input, core, files>>

NextImport ==
    \/ ImportProfitPulse
    \/ ImportMLModels
    \/ TrainImported
    \/ RunLoad
    \/ RunPreprocess
    \/ RunPca
    \/ RunLabel
    \/ RunTrain
    \/ RunEvaluate

SpecImport == InitImport /\ [][NextImport]_vars

\* C24: when xgboost is not installed the run does not fail on either entry path: the
\* import of the pipeline's module succeeds, and a training that succeeds stores and
\* evaluates all three models, with a gradient boosting classifier under the name
\* "XGBoost".
C24_FallbackOnEveryPath ==
    /\ (last.op = "import" /\ ~last.xgboost) => last.ok
    /\ (last.op = "train_models" /\ last.ok /\ ~last.xgboost) =>
          /\ {pipe.models_[i].name : i \in 1..Len(pipe.models_)} = DOMAIN last.estimators
          /\ {pipe.metrics_[i].name : i \in 1..Len(pipe.metrics_)} = DOMAIN last.estimators
          /\ last.estimators["XGBoost"] = "GradientBoostingClassifier"

\* ------------------------------------------------ the scenario of two firms
\* every firm listed in every year 2018-2021, all proxies defined
ScenarioPanels ==
    {PanelOf(Cells, v) : v \in [Cells -> {Num(x) : x \in XVals \cup {0}}]}

\* fit cutoff 2019, train cutoff 2020, test years {2021}; the input has its real size,
\* so the fit window is held against the code's own threshold
ScenarioConfig ==
    [AppConfig(DefaultTrainEnd, {DefaultTrainEnd + 1}, DefaultFitYear)
        EXCEPT !.min_fit_rows = FitWindowMin]

InitScenario ==
    /\ entry = "profitpulse"
    /\ input \in ScenarioPanels
    /\ pipe = NewPipeline(ScenarioConfig)
    /\ core = MainPipeline
    /\ pc = "idle"
    /\ files = {}
    /\ last = [op |-> "init", ok |-> TRUE]

NextScenario ==
    \/ FitMeasurement
    \/ TrainModels

SpecScenario == InitScenario /\ [][NextScenario]_vars

\* C25: on the input of 2 firms x 4 years fit_measurement and train_models run to
\* completion; the fit window is the 4 rows of 2018-2019, the forecast table has 6
\* rows, the training frame the 4 rows with target year <= 2020, the test frame the 2
\* rows with target year 2021, and every model is evaluated on those 2 rows.
C25_Scenario ==
    /\ last.op \in {"fit_measurement", "train_models"} =>
          /\ last.ok
          /\ Len(FitWindow(DropNA(pipe.df_proxy_[1]), pipe.cfg)) = 4
          /\ ~NotFitted(pipe)
    /\ last.op = "train_models" =>
          /\ Len(pipe.df_ml_[1]) = 6
          /\ Cardinality(pipe.split_[1].train) = 4
          /\ Cardinality(pipe.split_[1].test) = 2
          /\ Len(pipe.metrics_) = Len(ModelNames)
          /\ \A i \in 1..Len(pipe.metrics_) : Len(pipe.metrics_[i].test) = 2

\* ------------------------------------------------- repeated (firm, year) rows
\* the files build_proxies accepts, lines 184-198: it checks the columns, drops the rows
\* without FIRM_ID or YEAR and sorts; a file may list a firm's year twice, with the
\* same figures or with others
DupPanels ==
    CorePanels \cup
    UNION {{SortValues(Append(p, [p[ix[1]] EXCEPT !.X = Num(ix[2])])) :
               ix \in (1..Len(p)) \X XVals} :
           p \in {q \in CorePanels : Len(q) < MaxRows}}

InitDup ==
    /\ entry = "profitpulse"
    /\ input \in DupPanels
    /\ pipe = NewPipeline(DefaultConfig)
    /\ core = MainPipeline
    /\ pc = "idle"
    /\ files = {}
    /\ last = [op |-> "init", ok |-> TRUE]

NextDup ==
    \/ ScoreProfitability
    \/ BuildForecastPanel
    \/ PredictForApp

SpecDup == InitDup /\ [][NextDup]_vars

\* the (firm, predictor year, model) keys of a prediction table
ModelKeys(df) == {<<df[i].FIRM_ID, df[i].YEAR, df[i].model>> : i \in 1..Len(df)}

\* C26: (firm, predictor year) is a unique key of the scored table and of the forecast
\* table, and (firm, predictor year, model) of the prediction table, for every input
\* the pipeline accepts, an input that repeats a (firm, year) row included.
C26_UniqueKeys ==
    /\ pipe.df_scored_ # None =>
          Cardinality(Keys(pipe.df_scored_[1])) = Len(pipe.df_scored_[1])
    /\ pipe.df_ml_ # None =>
          Cardinality(Keys(pipe.df_ml_[1])) = Len(pipe.df_ml_[1])
    /\ pipe.df_pred_ # None =>
          Cardinality(ModelKeys(pipe.df_pred_[1])) = Len(pipe.df_pred_[1])

\* ---------------------------------------------- the label of an aligned row
\* the rows of the training frame that hold the features of row i's label year
LabelYearRows(i) ==
    {j \in 1..Len(core.train_prep[1]) :
        /\ core.train_prep[1][j].FIRM_ID = core.train_prep[1][i].FIRM_ID
        /\ core.train_prep[1][j].YEAR = core.train_prep[1][i].year_t1}

\* C27: in run_full_pipeline the label of an aligned row (firm, year_t, year_t1) is
\* decided by the firm's ProfitScore of year_t1, not by the ProfitScore computed from
\* the row's own features of year_t: where the training frame scores the firm's year
\* year_t1 as well, the row's label is 1 iff that score is positive.
C27_LabelFromNextYear ==
    core.labeled # None =>
        \A i \in 1..Len(core.train_prep[1]) : \A j \in LabelYearRows(i) :
            core.labeled[1].train[i] = Positive(core.scores[1].train[j])

\* --------------------------------------------------- the fit-window cutoff
\* AppConfig built directly, lines 49-54: the three years are independent fields with
\* independent defaults and __post_init__ compares none of them; here the training
\* cutoff and the fit-window cutoff are given and the test years left at their default
DirectConfigs ==
    {AppConfig(train_end, (DefaultTrainEnd + 1)..LastTestYear, fit_year) :
        train_end \in {DefaultTrainEnd - 1, DefaultTrainEnd}, fit_year \in Years}

InitConfig ==
    /\ entry = "profitpulse"
    /\ input \in {p \in CorePanels : \A i \in 1..Len(p) : p[i].FIRM_ID = 1}
    /\ pipe \in {NewPipeline(cfg) :
                    cfg \in DirectConfigs \cup {CliConfig(args) : args \in CliArgs}}
    /\ core = MainPipeline
    /\ pc = "idle"
    /\ files = {}
    /\ last = [op |-> "init", ok |-> TRUE]

NextConfig ==
    \/ FitMeasurement
    \/ ScoreProfitability

SpecConfig == InitConfig /\ [][NextConfig]_vars

\* C28: for every configuration, built directly or from the command line, the
\* fit-window cutoff is train_target_end_year - 1, and every row of the window a fit
\* used has a year strictly below every test target year.
C28_FitCutoffBeforeTest ==
    /\ pipe.cfg.preprocess_fit_pred_year = pipe.cfg.train_target_end_year - 1
    /\ ~NotFitted(pipe) =>
          \A i \in 1..Len(FitWindow(DropNA(pipe.df_proxy_[1]), pipe.cfg)) :
              \A t \in pipe.cfg.test_target_years :
                  FitWindow(DropNA(pipe.df_proxy_[1]), pipe.cfg)[i].YEAR < t

\* ------------------------------------------------ the four stored artifacts
\* the frames fit_measurement(df_proxy) is called with: the file's rows from some row on
FitFrames == {SubSeq(input, k, Len(input)) : k \in 1..(Len(input) + 1)}

\* fit_measurement(df_proxy) with a frame of the caller
FitOnFrame ==
    \E df \in FitFrames : Call("fit_measurement", fit_measurement(Fresh(pipe), Some(df)))

NextFit ==
    \/ FitOnFrame
    \/ ScoreProfitability

SpecFit == InitIso /\ [][NextFit]_vars

\* the four artifacts a successful fit on frame df stores
FitOf(cfg, df) == fit_on(NewPipeline(cfg), df)

AllOrNone(p) ==
    \/ p.winsor_bounds_ = None /\ p.pca_scaler_ = None /\ p.pca_ = None /\ p.omega_ = None
    \/ ~NotFitted(p)

\* C29: fit_measurement stores winsor_bounds_, pca_scaler_, pca_ and omega_ together
\* and only after every fit step succeeded: a call that raises leaves all four as they
\* were, the four are always all unset or all set, and whenever they change they become
\* the four values of one successful fit.
C29_ArtifactsTogether ==
    [][/\ ~last'.ok => Measurement(pipe') = Measurement(pipe)
       /\ AllOrNone(pipe')
       /\ Measurement(pipe') # Measurement(pipe) =>
             \E df \in FitFrames :
                 /\ FitOf(pipe.cfg, df).ok
                 /\ Measurement(pipe') = Measurement(FitOf(pipe.cfg, df).p)
      ]_vars

\* a fit that raised on a frame without enough window rows, after an earlier fit had
\* stored the four artifacts, which are still there
C29_Witness ==
    /\ last = [op |-> "fit_measurement", ok |-> FALSE]
    /\ ~NotFitted(pipe)

\* ------------------------------------------------- the cached prediction table
\* the screener's panels with at most one row of another firm
CachePanels == {p \in ScreenPanels : Len(p) <= Cardinality(Years) + 1}

InitCache ==
    /\ entry = "profitpulse"
    /\ input \in CachePanels
    /\ pipe = NewPipeline(DefaultConfig)
    /\ core = MainPipeline
    /\ pc = "idle"
    /\ files = {}
    /\ last = [op |-> "init", ok |-> TRUE]

NextCache ==
    \/ ScoreByRule
    \/ BuildForecastPanel
    \/ TrainModels
    \/ PredictForApp
    \/ ScreenerView

SpecCache == InitCache /\ [][NextCache]_vars

\* the chances a prediction table holds, by forecast row and model
ChancesOf(df) ==
    {<<df[k].FIRM_ID, df[k].YEAR, df[k].model, df[k].chance>> : k \in 1..Len(df)}

\* C30: after any sequence of calls of the public methods, the cached prediction table
\* build_screener_view read holds exactly the chances of the stored models applied to
\* the stored forecast panel.
C30_PredictionsCurrent ==
    (last.op = "build_screener_view" /\ last.ok) =>
        ChancesOf(pipe.df_pred_[1]) =
            ChancesOf(predict_on(pipe, pipe.df_ml_[1]).p.df_pred_[1])

\* the fitting stages of the two pipelines
FitStages ==
    {"fit_measurement", "train_models",
     "preprocess_pipeline", "pca_pipeline", "create_labels_pipeline", "train_all_models"}

\* C11: a failing fitting stage aborts the run before any artifact file of the run is
\* written.  When a fit or a training step of export_artifacts or run_full_pipeline
\* raised, the output directory is empty; and whenever it holds a file, the measurement
\* is fitted and the models are trained (export_artifacts), respectively the
\* preprocessor, the PCA and the models are (run_full_pipeline).
C11_FitFailureWritesNothing ==
    /\ (pc \in {"failed", "run:failed"} /\ last.op \in FitStages) => files = {}
    /\ (entry = "profitpulse" /\ files # {}) =>
          ~NotFitted(pipe) /\ pipe.models_ # <<>> /\ pipe.n_fit = 1 /\ pipe.n_train = 1
    /\ (entry = "full" /\ files # {}) =>
          /\ core.preprocessor.scaler_params # None
          /\ core.pca.evr # None
          /\ core.ml_models # <<>>

\* export_artifacts stopped at a training that raised, after the measurement was fitted
C11_Witness ==
    /\ pc = "failed"
    /\ last = [op |-> "train_models", ok |-> FALSE]
    /\ ~NotFitted(pipe)
    /\ files = {}

\* C12: a fit of the bounds or of the PCA on fewer complete fit-window rows than the
\* minimum fails, and the error reports the row count and the threshold; with the
\* minimum or more rows the fit succeeds.  Checked after fit_measurement (fit window of
\* the cached proxy table), fit_winsor_bounds and fit_pca (their training frame).
C12_InsufficientData ==
    /\ (last.op = "fit_measurement" /\ pipe.df_proxy_ # None /\ pc \in {"idle", "score", "failed"}) =>
          /\ last.ok <=>
                Len(FitWindow(DropNA(pipe.df_proxy_[1]), pipe.cfg)) >= MinFitRows
          /\ ~last.ok => FitWindowError.rows # None /\ FitWindowError.threshold # None
    /\ last.op = "fit_winsor_bounds" =>
          (last.ok <=> Len(DropNA(core.train_df[1])) >= MinFitRows)
    /\ last.op = "fit_pca" =>
          (last.ok <=> Len(DropNA(core.train_prep[1])) >= MinFitRows)

====
